---------------------------- MODULE Spec2Model ----------------------------
(***************************************************************************)
(* A model of these parts of einsums:                                      *)
(*   - the CPU-affinity decoder  (affinity/src/parse_affinity_options.cpp) *)
(*   - the scheduler base's run-state protocol (scheduler_base: suspend,   *)
(*     resume, set_all_states_at_least, has_reached_state)                 *)
(*   - CircularBuffer<T>         (include/einsums/STL.hpp)                 *)
(*   - the runtime lifecycle     (Runtime/src/InitRuntime.cpp)             *)
(*   - the GPU contraction kernels and khatri_rao                          *)
(*   - profile::Timer                                                      *)
(*   - the scheduler base's idle back-off, scheduler mode and polling      *)
(*     hooks                                                               *)
(* Each part has its own specification over the shared variable tuple; the *)
(* variables of the other parts stay at their initial values.              *)
(***************************************************************************)
EXTENDS Integers, Sequences, FiniteSets, TLC

VARIABLES
    \* ---- affinity decoder ----
    pc_aff,        \* position of the parse_affinity_options call
    call,          \* the arguments of the call (and the topology it runs on)
    mappings,      \* mappings_type mappings (parse_affinity_options.cpp:398)
    ec,            \* the caller's error_code
    affinities,    \* std::vector<mask_type> &affinities
    num_pus,       \* std::vector<std::size_t> &num_pus
    loc,           \* the locals of the running decode_*_distribution
    \* ---- scheduler_base ----
    _states,       \* std::vector<std::atomic<runtime_state>> _states
    pc_thr,        \* position of each OS thread in suspend()
    expected,      \* suspend()'s local `expected` after the compare-exchange
    ctl,           \* the caller of set_all_states_at_least: its loop position
    prior,         \* _states at the start of the current set_all_states_at_least
    interfered,    \* some other writer stored to _states since that start
    notified,      \* per thread: a resume found it past its store of sleeping, not yet waiting
    \* ---- CircularBuffer ----
    _max_size, _buffer, _head, _tail, _full, _mutex,
    pc_buf,        \* position of each caller inside put()/reset()
    item,          \* the argument of each caller's running put()
    issued,        \* number of put calls issued so far (items are 1, 2, ...)
    log,           \* the items put since construction or the last reset, in order
    resets,        \* number of reset calls so far
    \* ---- runtime lifecycle ----
    pc_rt,         \* position in initialize/start
    pc_fin,        \* position in finalize
    args,          \* the arguments of initialize/start and the build flags
    trace,         \* the startup events of the running initialize/start
    fin_trace,     \* the events of the running finalize
    live,          \* number of Runtime objects alive
    result,        \* what initialize/start returned
    \* ---- GPU contraction kernels ----
    launch,        \* the contraction and its kernel launch (operands, prefactors, grid)
    gpu_pc,        \* position of the host (index "host") and of each device worker
    C,             \* the elements of the result tensor C in device memory
    curr_index,    \* each worker's curr_index
    work,          \* each worker's slot of the shared work array (rank-zero kernel)
    loaded,        \* the value a worker read for its running C[curr_index] *= C_prefactor
    adds,          \* number of atomic adds each worker has issued
    spins,         \* iterations of the rank-zero loop each worker has gone through
    lost,          \* number of atomic adds whose result a later make_zero has overwritten
    \* ---- khatri_rao ----
    kr_pc,         \* position in khatri_rao
    kr_call,       \* the extents of the operands of the running khatri_rao call
    kr_i,          \* the index i of the sanity check's for_sequence
    kr_trace,      \* what the call has done so far
    \* ---- profile::Timer ----
    tm_now,        \* clock::now()
    tm_timers,     \* the Timer objects alive, outermost scope first
    tm_stack,      \* the process-wide stack of timing entries
    tm_unwind,     \* number of scopes an exception in flight still has to leave
    tm_made,       \* number of Timer objects constructed so far
    tm_log,        \* the pop(elapsed) calls issued so far
    \* ---- scheduler_base: idle back-off and scheduler mode ----
    mode_,         \* std::atomic<scheduler_mode> mode_, as the set of its flags
    _wait_counts,  \* _wait_counts[num_thread].data_._wait_count
    _max_idle_backoff_time,  \* in half milliseconds
    idle_pc,       \* position of each OS thread in idle_callback
    period,        \* the period of each thread's running wait_for, in milliseconds
    idle_k,        \* how many idle_callbacks in a row came before the running one
    idle_exit,     \* how each thread's last wait_for ended
    sm_pc,         \* position of the caller of set_scheduler_mode
    sm_arg,        \* the mode that caller stores
    broadcasts,    \* number of _cond.notify_all() calls so far
    mode_sets,     \* number of set_scheduler_mode calls that have returned
    \* ---- scheduler_base: polling hooks ----
    _polling_function_mpi, _polling_function_cuda,
    _polling_work_count_function_mpi, _polling_work_count_function_cuda,
    poll_build,    \* which of the EINSUMS_HAVE_MODULE_ASYNC_* macros the build defines
    poll_ret,      \* the last call of custom_polling_function / get_polling_work_count
    \* ---- scheduler_base: select_active_pu ----
    _pu_mtxs,      \* who holds each _pu_mtxs[i]: "free", "l" (the caller's lock) or "other"
    sel,           \* the running select_active_pu call: its position, arguments and locals
    \* ---- scheduler_base: concurrent updates of the scheduler mode ----
    upd,           \* per caller of add/remove_scheduler_mode: position, request, computed mode
    \* ---- CircularBuffer: unlocked readers ----
    rd             \* the last return of size(), empty() or full(), and what the buffer held

affVars   == <<pc_aff, call, mappings, ec, affinities, num_pus, loc>>
schedVars == <<_states, pc_thr, expected, ctl, prior, interfered, notified>>
bufVars   == <<_max_size, _buffer, _head, _tail, _full, _mutex, pc_buf, item, issued, log, resets>>
rtVars    == <<pc_rt, pc_fin, args, trace, fin_trace, live, result>>
gpuVars   == <<launch, gpu_pc, C, curr_index, work, loaded, adds, spins, lost>>
\* the parts added after the first four, and the first four
krVars    == <<kr_pc, kr_call, kr_i, kr_trace>>
tmVars    == <<tm_now, tm_timers, tm_stack, tm_unwind, tm_made, tm_log>>
idleVars  == <<mode_, _wait_counts, _max_idle_backoff_time, idle_pc, period, idle_k, idle_exit,
               sm_pc, sm_arg, broadcasts, mode_sets>>
pollVars  == <<_polling_function_mpi, _polling_function_cuda,
               _polling_work_count_function_mpi, _polling_work_count_function_cuda,
               poll_build, poll_ret>>
puVars    == <<_pu_mtxs, sel>>
lateVars  == <<puVars, upd, rd>>
extVars   == <<gpuVars, krVars, tmVars, idleVars, pollVars, lateVars>>
coreVars  == <<affVars, schedVars, bufVars, rtVars>>
vars      == <<coreVars, extVars>>

-----------------------------------------------------------------------------
(* Bounds of the model *)

MaxThreads == 4
MaxUsedCores == 1
MaxMaxCores == 3
PoolSize == 2
MaxCap == 3
MaxPuts == 5
MaxResets == 1
BufCallers == 2
MaxFuncs == 2
MaxBlocks == 2
MaxBlockThreads == 2
MaxWorkers == 2
MaxExtent == 2
MaxSpin == 2
MaxLost == 1
ExtI == 3
ExtK == 4
ExtJ == 5

Min(a, b) == IF a < b THEN a ELSE b
Max(a, b) == IF a < b THEN b ELSE a

RECURSIVE SumSeq(_)
SumSeq(s) == IF s = <<>> THEN 0 ELSE Head(s) + SumSeq(Tail(s))

-----------------------------------------------------------------------------
(*                         AFFINITY DECODER                                *)

(* The topology: socket_cores[n] cores on socket n, core_pus[c] processing  *)
(* units on core c. Cores are numbered socket by socket, processing units   *)
(* core by core.                                                            *)
Topologies ==
    { [socket_cores |-> <<2>>,       core_pus |-> <<2, 2>>],
      [socket_cores |-> <<2>>,       core_pus |-> <<1, 2>>],
      [socket_cores |-> <<1, 1>>,    core_pus |-> <<1, 2>>],
      [socket_cores |-> <<2, 1>>,    core_pus |-> <<2, 2, 2>>],
      [socket_cores |-> <<1, 1, 1>>, core_pus |-> <<1, 1, 1>>] }

get_number_of_cores(t) == Len(t.core_pus)
get_number_of_sockets(t) == Len(t.socket_cores)
get_number_of_socket_cores(t, n) == t.socket_cores[n + 1]
hardware_concurrency(t) == SumSeq(t.core_pus)

\* A core index past the last core has no core object: one unit is reported.
get_number_of_core_pus(t, core) ==
    IF core < Len(t.core_pus) THEN t.core_pus[core + 1] ELSE 1

\* Core and unit indices wrap around (num_core %= num_cores, num_pu %= arity).
get_pu_number(t, num_core, num_pu) ==
    LET c == num_core % Len(t.core_pus)
        p == num_pu % t.core_pus[c + 1]
    IN  SumSeq(SubSeq(t.core_pus, 1, c)) + p

init_thread_affinity_mask(t, num_core, num_pu) == {get_pu_number(t, num_core, num_pu)}

AllPus(t) == 0 .. (hardware_concurrency(t) - 1)

\* The binding masks of the calling process that the model tries: every unit,
\* or every unit but one. A process is bound to at least one unit.
ProcessMasks(t, use_process_mask) ==
    IF use_process_mask
    THEN {m \in {AllPus(t)} \cup {AllPus(t) \ {p} : p \in AllPus(t)} : m # {}}
    ELSE {AllPus(t)}

Policies == {"compact", "scatter", "balanced", "numa-balanced"}
SpecStrings == Policies \cup {"bogus"}

\* The caller's vectors before the call: fresh, or with thread 0 already bound.
CallerAffinities == {<<>>, <<{0}>>}

Resize(v, n, fill) == [i \in 1 .. n |-> IF i <= Len(v) THEN v[i] ELSE fill]

any(mask) == mask # {}

pu_in_process_mask(c, num_core, num_pu) ==
    IF ~c.use_process_mask
    THEN TRUE
    ELSE (c.proc_mask \cap init_thread_affinity_mask(c.t, num_core, num_pu)) # {}

\* The number of units num_threads is checked against (check_num_threads).
UsablePus(c) ==
    IF c.use_process_mask THEN Cardinality(c.proc_mask) ELSE hardware_concurrency(c.t)

check_num_threads(c) == c.num_threads > UsablePus(c)

\* The values `mappings` can hold when decode_distribution reads it. For an
\* unrecognised string nothing was assigned to it: any value of the enum's
\* storage, one of the four enumerators or none of them.
parse_mappings(spec) ==
    IF spec \in Policies THEN {spec} ELSE Policies \cup {"indeterminate"}

\* while (pu_index < num_core_pus) { use_pu = pu_in_process_mask(...); ++pu_index; ... }
RECURSIVE FindNextPu(_, _, _, _)
FindNextPu(c, mask_core, pu_index, num_core_pus) ==
    IF pu_index < num_core_pus
    THEN IF pu_in_process_mask(c, mask_core, pu_index)
         THEN [pu_index |-> pu_index + 1, use_pu |-> TRUE]
         ELSE FindNextPu(c, mask_core, pu_index + 1, num_core_pus)
    ELSE [pu_index |-> pu_index, use_pu |-> FALSE]

\* EINSUMS_THROWS_IF(ec, bad_parameter, "affinity mask for thread {} has already been set"); return;
AlreadySet(c, st) ==
    IF c.throws THEN [st EXCEPT !.status = "raised"]
    ELSE [st EXCEPT !.status = "returned", !.ec = "bad_parameter"]

\* if (use_process_mask) { used_cores = 0; max_cores = t.get_number_of_cores(); }
EffUsedCores(c) == IF c.use_process_mask THEN 0 ELSE c.used_cores
EffMaxCores(c) == IF c.use_process_mask THEN get_number_of_cores(c.t) ELSE c.max_cores
\* std::size_t num_cores = (std::min)(max_cores, t.get_number_of_cores());
NumCores(c) == Min(EffMaxCores(c), get_number_of_cores(c.t))

\* num_pus[num_thread] = t.get_pu_number(pu_core, pu);
\* affinities[num_thread] = t.init_thread_affinity_mask(mask_core, pu); ++num_thread;
Assign(c, st, pu_core, mask_core, pu) ==
    [st EXCEPT !.num_pus[st.num_thread + 1] = get_pu_number(c.t, pu_core, pu),
               !.affinities[st.num_thread + 1] = init_thread_affinity_mask(c.t, mask_core, pu),
               !.num_thread = st.num_thread + 1]

\* One pass of the outer loop of decode_compact_distribution: the two inner
\* loops over the cores and over each core's units, from (num_core, num_pu) on.
RECURSIVE CompactFrom(_, _, _, _)
CompactFrom(c, st, num_core, num_pu) ==
    IF num_core >= NumCores(c) THEN st
    ELSE IF num_pu >= get_number_of_core_pus(c.t, num_core + EffUsedCores(c))
         THEN CompactFrom(c, st, num_core + 1, 0)
    ELSE IF ~pu_in_process_mask(c, num_core, num_pu)
         THEN CompactFrom(c, st, num_core, num_pu + 1)
    ELSE IF any(st.affinities[st.num_thread + 1]) THEN AlreadySet(c, st)
    ELSE LET st2 == Assign(c, st, num_core + EffUsedCores(c), num_core + EffUsedCores(c), num_pu)
         IN  IF st2.num_thread = c.num_threads
             THEN [st2 EXCEPT !.status = "returned"]
             ELSE CompactFrom(c, st2, num_core, num_pu + 1)

\* One pass of the outer loop of decode_scatter_distribution, from num_core on.
RECURSIVE ScatterFrom(_, _, _)
ScatterFrom(c, st, num_core) ==
    IF num_core >= NumCores(c) THEN st
    ELSE IF any(st.affinities[st.num_thread + 1]) THEN AlreadySet(c, st)
    ELSE LET f   == FindNextPu(c, num_core, st.next_pu_index[num_core + 1],
                               get_number_of_core_pus(c.t, num_core))
             st1 == [st EXCEPT !.next_pu_index[num_core + 1] = f.pu_index]
         IN  IF ~f.use_pu THEN ScatterFrom(c, st1, num_core + 1)
             ELSE LET st2 == Assign(c, st1, num_core + EffUsedCores(c),
                                    num_core + EffUsedCores(c), f.pu_index - 1)
                  IN  IF st2.num_thread = c.num_threads
                      THEN [st2 EXCEPT !.status = "returned"]
                      ELSE ScatterFrom(c, st2, num_core + 1)

\* One pass of the counting loop of decode_balanced_distribution (lines
\* 209-235), from num_core on; `break` leaves the pass when all threads are counted.
RECURSIVE BalancedCountFrom(_, _, _)
BalancedCountFrom(c, st, num_core) ==
    IF num_core >= NumCores(c) THEN st
    ELSE LET f   == FindNextPu(c, num_core, st.next_pu_index[num_core + 1],
                               get_number_of_core_pus(c.t, num_core))
             st1 == [st EXCEPT !.next_pu_index[num_core + 1] = f.pu_index]
         IN  IF ~f.use_pu THEN BalancedCountFrom(c, st1, num_core + 1)
             ELSE LET st2 == [st1 EXCEPT
                                !.pu_indexes[num_core + 1] = Append(@, f.pu_index - 1),
                                !.num_pus_cores[num_core + 1] = @ + 1,
                                !.num_thread = @ + 1]
                  IN  IF st2.num_thread = c.num_threads THEN st2
                      ELSE BalancedCountFrom(c, st2, num_core + 1)

C23_AssignNothing(c, st, num_core, num_pu) == [st EXCEPT !.status = "returned"]

\* The assignment loop of decode_balanced_distribution (lines 240-252).
RECURSIVE BalancedAssignFrom(_, _, _, _)
BalancedAssignFrom(c, st, num_core, num_pu) ==
    IF num_core >= NumCores(c) THEN [st EXCEPT !.status = "returned"]
    ELSE IF num_pu >= st.num_pus_cores[num_core + 1]
         THEN BalancedAssignFrom(c, st, num_core + 1, 0)
    ELSE IF any(st.affinities[st.num_thread + 1]) THEN AlreadySet(c, st)
    ELSE BalancedAssignFrom(c,
             Assign(c, st, num_core + EffUsedCores(c), num_core + EffUsedCores(c),
                    st.pu_indexes[num_core + 1][num_pu + 1]),
             num_core, num_pu + 1)

\* ---- decode_numabalanced_distribution ----

NumSockets(c) == Max(1, get_number_of_sockets(c.t))

\* core_offset when the loops reach socket n
CoreOffset(c, n) == SumSeq(SubSeq(c.t.socket_cores, 1, n))

\* num_pus_socket[n]: the units of socket n that are in the process mask (lines 280-292)
NumPusSocket(c, n) ==
    Cardinality({ cp \in (0 .. get_number_of_socket_cores(c.t, n) - 1) \X (0 .. hardware_concurrency(c.t)) :
                    /\ cp[2] < get_number_of_core_pus(c.t, cp[1] + CoreOffset(c, n))
                    /\ pu_in_process_mask(c, cp[1] + CoreOffset(c, n), cp[2]) })

NumPusSockets(c) == [n \in 1 .. NumSockets(c) |-> NumPusSocket(c, n - 1)]

\* static_cast<std::size_t>(std::round(double(a) / double(b))), a >= 0, b > 0:
\* halves round away from zero.
Round(a, b) == (2 * a + b) \div (2 * b)

\* How many threads go on each socket (lines 295-306), from socket n on.
RECURSIVE ThreadsPerSocketFrom(_, _, _, _, _)
ThreadsPerSocketFrom(c, num_pus_socket, pus_t, n, pus_t2) ==
    IF n >= NumSockets(c) THEN <<>>
    ELSE LET rounded == Round(c.num_threads * num_pus_socket[n + 1], pus_t)
             temp    == IF pus_t2 + rounded > c.num_threads
                        THEN c.num_threads - pus_t2 ELSE rounded
         IN  <<temp>> \o ThreadsPerSocketFrom(c, num_pus_socket, pus_t, n + 1, pus_t2 + temp)

NumThreadsSocket(c) ==
    ThreadsPerSocketFrom(c, NumPusSockets(c), SumSeq(NumPusSockets(c)), 0, 0)

\* One pass of the counting loop of socket st.n (lines 321-347), from num_core on.
RECURSIVE NumaCountFrom(_, _, _)
NumaCountFrom(c, st, num_core) ==
    IF num_core >= get_number_of_socket_cores(c.t, st.n) THEN st
    ELSE LET f   == FindNextPu(c, num_core + st.core_offset, st.next_pu_index[num_core + 1],
                               get_number_of_core_pus(c.t, num_core))
             st1 == [st EXCEPT !.next_pu_index[num_core + 1] = f.pu_index]
         IN  IF ~f.use_pu THEN NumaCountFrom(c, st1, num_core + 1)
             ELSE LET st2 == [st1 EXCEPT
                                !.pu_indexes[num_core + 1] = Append(@, f.pu_index - 1),
                                !.num_pus_cores[num_core + 1] = @ + 1,
                                !.num_thread_socket = @ + 1]
                  IN  IF st2.num_thread_socket = st.num_threads_socket[st.n + 1] THEN st2
                      ELSE NumaCountFrom(c, st2, num_core + 1)

\* The assignment loop of socket st.n (lines 352-362).
RECURSIVE NumaAssignFrom(_, _, _, _)
NumaAssignFrom(c, st, num_core, num_pu) ==
    IF num_core >= get_number_of_socket_cores(c.t, st.n) THEN st
    ELSE IF num_pu >= st.num_pus_cores[num_core + 1]
         THEN NumaAssignFrom(c, st, num_core + 1, 0)
    ELSE IF any(st.affinities[st.num_thread + 1]) THEN AlreadySet(c, st)
    ELSE NumaAssignFrom(c,
             Assign(c, st, num_core + EffUsedCores(c),
                    num_core + EffUsedCores(c) + st.core_offset,
                    st.pu_indexes[num_core + 1][num_pu + 1]),
             num_core, num_pu + 1)

\* for (n ...) { fresh per-socket vectors; counting loop ...: enters socket st.n;
\* a socket that gets no thread is passed at once, the function returns after
\* the last socket.
RECURSIVE NumaEnterSocket(_, _)
NumaEnterSocket(c, st) ==
    IF st.status # "loop" THEN st
    ELSE IF st.n >= NumSockets(c) THEN [st EXCEPT !.status = "returned"]
    ELSE LET ncs == get_number_of_socket_cores(c.t, st.n)
             st1 == [st EXCEPT !.num_pus_cores = [i \in 1 .. ncs |-> 0],
                               !.next_pu_index = [i \in 1 .. ncs |-> 0],
                               !.pu_indexes = [i \in 1 .. ncs |-> <<>>],
                               !.num_thread_socket = 0]
         IN  IF st.num_threads_socket[st.n + 1] = 0
             THEN NumaEnterSocket(c, [st1 EXCEPT !.core_offset = @ + ncs, !.n = @ + 1])
             ELSE st1

\* The counting loop of socket st.n is over: assign its threads, go to the next socket.
NumaFinishSocket(c, st) ==
    LET st1 == NumaAssignFrom(c, st, 0, 0)
    IN  IF st1.status # "loop" THEN st1
        ELSE NumaEnterSocket(c, [st1 EXCEPT
                                   !.core_offset = @ + get_number_of_socket_cores(c.t, st.n),
                                   !.n = @ + 1])

\* ---- the call as a state machine ----

IdleCall ==
    [spec |-> "compact", t |-> [socket_cores |-> <<2>>, core_pus |-> <<2, 2>>],
     proc_mask |-> {}, use_process_mask |-> FALSE, throws |-> TRUE,
     used_cores |-> 0, max_cores |-> 0, num_threads |-> 0, affinities0 |-> <<>>]

IdleLoc ==
    [num_thread |-> 0, next_pu_index |-> <<>>, num_pus_cores |-> <<>>, pu_indexes |-> <<>>,
     n |-> 0, core_offset |-> 0, num_thread_socket |-> 0,
     num_pus_socket |-> <<>>, num_threads_socket |-> <<>>]

InitAff ==
    /\ pc_aff = "idle"
    /\ call = IdleCall
    /\ mappings = "indeterminate"
    /\ ec = "success"
    /\ affinities = <<>>
    /\ num_pus = <<>>
    /\ loc = IdleLoc

\* The running decode function's view: the caller's vectors and error code, its locals.
St == [affinities |-> affinities, num_pus |-> num_pus, ec |-> ec, status |-> "loop"] @@ loc

\* Where the call stands after a step that left the decode function in state st.
Commit(st, d) ==
    /\ affinities' = st.affinities
    /\ num_pus' = st.num_pus
    /\ ec' = st.ec
    /\ loc' = [f \in DOMAIN IdleLoc |-> st[f]]
    /\ pc_aff' = CASE st.status = "loop" -> d
                   [] st.status = "returned" -> "done"
                   [] st.status = "raised" -> "raised"

\* The locals of decode_<d>_distribution when its first loop starts.
FirstLocals(c, d) ==
    IF d = "numa-balanced"
    THEN [IdleLoc EXCEPT !.num_pus_socket = NumPusSockets(c),
                         !.num_threads_socket = NumThreadsSocket(c)]
    ELSE [IdleLoc EXCEPT !.next_pu_index = [i \in 1 .. NumCores(c) |-> 0],
                         !.num_pus_cores = [i \in 1 .. NumCores(c) |-> 0],
                         !.pu_indexes = [i \in 1 .. NumCores(c) |-> <<>>]]

\* decode_distribution (lines 368-392) and the head of the decode function it
\* calls, up to that function's first loop.
decode_distribution(c, d) ==
    LET resized == Resize(c.affinities0, c.num_threads, {})
    IN  IF d = "indeterminate"
        THEN \* default: EINSUMS_ASSERT(false), which a release build compiles out
             /\ pc_aff' \in {"aborted", "done"}
             /\ affinities' = resized
             /\ UNCHANGED <<ec, num_pus, loc>>
        ELSE IF check_num_threads(c) /\ c.throws
        THEN /\ pc_aff' = "raised"
             /\ affinities' = resized
             /\ UNCHANGED <<ec, num_pus, loc>>
        ELSE LET st0 == [affinities |-> resized,
                         num_pus |-> Resize(<<>>, c.num_threads, 0),
                         ec |-> IF check_num_threads(c) THEN "bad_parameter" ELSE "success",
                         status |-> "loop"] @@ FirstLocals(c, d)
                 st1 == CASE d \in {"compact", "scatter"} ->
                                IF c.num_threads = 0 THEN [st0 EXCEPT !.status = "returned"] ELSE st0
                          [] d = "balanced" ->
                                IF c.num_threads = 0 THEN BalancedAssignFrom(c, st0, 0, 0) ELSE st0
                          [] d = "numa-balanced" -> NumaEnterSocket(c, st0)
             IN  Commit(st1, d)

\* parse_affinity_options (lines 395-408) up to the first loop of the decode function.
ParseAffinityOptions ==
    /\ pc_aff = "idle"
    /\ \E spec \in SpecStrings, t \in Topologies, upm \in BOOLEAN, throws \in BOOLEAN,
          used \in 0 .. MaxUsedCores, max \in 0 .. MaxMaxCores, nt \in 0 .. MaxThreads,
          aff0 \in CallerAffinities :
         \E pm \in ProcessMasks(t, upm) :
            LET c == [spec |-> spec, t |-> t, proc_mask |-> pm, use_process_mask |-> upm,
                      throws |-> throws, used_cores |-> used, max_cores |-> max,
                      num_threads |-> nt, affinities0 |-> aff0]
            IN  /\ call' = c
                /\ IF spec \notin Policies /\ throws
                   THEN \* parse_mappings raises: nothing was touched
                        /\ pc_aff' = "raised"
                        /\ affinities' = aff0
                        /\ UNCHANGED <<mappings, ec, num_pus, loc>>
                   ELSE \* with an error code: line 34 sets it, line 38 clears it
                        \E d \in parse_mappings(spec) :
                            /\ mappings' = d
                            /\ decode_distribution(c, d)
    /\ UNCHANGED <<schedVars, bufVars, rtVars, extVars>>

DecodeCompactPass ==
    /\ pc_aff = "compact"
    /\ Commit(CompactFrom(call, St, 0, 0), "compact")
    /\ UNCHANGED <<call, mappings, schedVars, bufVars, rtVars, extVars>>

DecodeScatterPass ==
    /\ pc_aff = "scatter"
    /\ Commit(ScatterFrom(call, St, 0), "scatter")
    /\ UNCHANGED <<call, mappings, schedVars, bufVars, rtVars, extVars>>

DecodeBalancedPass ==
    /\ pc_aff = "balanced"
    /\ LET s1 == BalancedCountFrom(call, St, 0)
       IN  Commit(IF s1.num_thread = call.num_threads
                  THEN BalancedAssignFrom(call, [s1 EXCEPT !.num_thread = 0], 0, 0)
                  ELSE s1, "balanced")
    /\ UNCHANGED <<call, mappings, schedVars, bufVars, rtVars, extVars>>

DecodeNumaBalancedPass ==
    /\ pc_aff = "numa-balanced"
    /\ LET s1 == NumaCountFrom(call, St, 0)
       IN  Commit(IF s1.num_thread_socket = s1.num_threads_socket[s1.n + 1]
                  THEN NumaFinishSocket(call, s1)
                  ELSE s1, "numa-balanced")
    /\ UNCHANGED <<call, mappings, schedVars, bufVars, rtVars, extVars>>

NextAff ==
    \/ ParseAffinityOptions
    \/ DecodeCompactPass
    \/ DecodeScatterPass
    \/ DecodeBalancedPass
    \/ DecodeNumaBalancedPass

\* ---- claims about the affinity decoder ----

Succeeded == pc_aff = "done" /\ ec = "success"
Failed == pc_aff = "raised" \/ (pc_aff = "done" /\ ec = "bad_parameter")

OneUnitEach == \A i \in 1 .. Len(affinities) : Cardinality(affinities[i]) = 1
NoSharedUnit ==
    \A i, j \in 1 .. Len(affinities) :
        i # j => affinities[i] \cap affinities[j] = {}

\* C1: for each of the four policies, every used_cores/max_cores, with or
\* without process mask, and every num_threads not larger than the number of
\* usable processing units, the call returns num_threads masks, each with
\* exactly one unit, and no two threads share a unit.
C1_CompleteAndDisjoint ==
    (Succeeded /\ call.spec \in Policies /\ call.num_threads <= UsablePus(call))
        => /\ Len(affinities) = call.num_threads
           /\ OneUnitEach
           /\ NoSharedUnit

\* C2: when num_threads exceeds the usable processing units the call fails
\* with InvalidInput and the caller's two vectors are as they were before it.
C2_OversubscriptionLeavesVectors ==
    (pc_aff \in {"done", "raised", "aborted"} /\ call.spec \in Policies
       /\ call.num_threads > UsablePus(call))
        => /\ Failed
           /\ affinities = call.affinities0
           /\ num_pus = <<>>

\* C3: called with an error-code output and a string that names no policy, the
\* call returns with the error code holding InvalidInput and decodes nothing.
C3_UnknownPolicyReported ==
    (pc_aff # "idle" /\ call.spec \notin Policies /\ ~call.throws)
        => /\ pc_aff = "done"
           /\ ec = "bad_parameter"
           /\ affinities = call.affinities0
           /\ num_pus = <<>>

\* C4: in numa-balanced, for num_threads not larger than the usable units, the
\* per-socket thread counts sum to num_threads and no socket gets more
\* threads than it has usable units.
C4_SocketCountsSumToThreads ==
    (pc_aff \in {"numa-balanced", "done"} /\ mappings = "numa-balanced"
       /\ call.spec = "numa-balanced" /\ call.num_threads <= UsablePus(call))
        => /\ SumSeq(loc.num_threads_socket) = call.num_threads
           /\ \A n \in 1 .. Len(loc.num_threads_socket) :
                 loc.num_threads_socket[n] <= loc.num_pus_socket[n]

\* ---- the decoders compared, their results and their termination ----

\* decode_scatter_distribution run to its end on call c; a pass of the outer
\* loop that changes nothing repeats for ever, and the result stays at "loop"
RECURSIVE ScatterRun(_, _)
ScatterRun(c, st) ==
    IF st.status # "loop" THEN st
    ELSE LET next == ScatterFrom(c, st, 0)
         IN  IF next = st THEN st ELSE ScatterRun(c, next)

decode_scatter_distribution(c) ==
    LET st0 == [affinities |-> Resize(c.affinities0, c.num_threads, {}),
                num_pus |-> Resize(<<>>, c.num_threads, 0),
                ec |-> IF check_num_threads(c) THEN "bad_parameter" ELSE "success",
                status |-> "loop"] @@ FirstLocals(c, "scatter")
    IN  ScatterRun(c, IF c.num_threads = 0 THEN [st0 EXCEPT !.status = "returned"] ELSE st0)

\* the core a processing unit belongs to
CoreOf(t, pu) ==
    CHOOSE core \in 0 .. get_number_of_cores(t) - 1 :
        pu \in {get_pu_number(t, core, p) : p \in 0 .. t.core_pus[core + 1] - 1}

Assigned(masks) == {i \in 1 .. Len(masks) : any(masks[i])}

UnitsOf(masks) == UNION {masks[i] : i \in 1 .. Len(masks)}

ThreadsOnCore(t, masks, core) ==
    Cardinality({i \in Assigned(masks) : \E pu \in masks[i] : CoreOf(t, pu) = core})

BalancedReturned ==
    /\ pc_aff = "done" /\ ec = "success"
    /\ call.spec = "balanced" /\ mappings = "balanced"
    /\ call.affinities0 = <<>>

CoreRangeInTopology(c) == EffUsedCores(c) + NumCores(c) <= get_number_of_cores(c.t)

C28_IndexMatchesMask ==
    (pc_aff = "done" /\ call.spec \in Policies /\ mappings = call.spec
       /\ call.affinities0 = <<>>)
        => \A i \in Assigned(affinities) : affinities[i] = {num_pus[i]}

\* what one more pass of the running decoder's outer loop leaves behind
PassResult ==
    CASE pc_aff = "compact" -> CompactFrom(call, St, 0, 0)
      [] pc_aff = "scatter" -> ScatterFrom(call, St, 0)
      [] pc_aff = "balanced" -> BalancedCountFrom(call, St, 0)
      [] pc_aff = "numa-balanced" -> NumaCountFrom(call, St, 0)
      [] OTHER -> St

\* C29: parse_affinity_options terminates: the call is never in a decoder's
\* outer loop at a point where a pass of that loop changes nothing (and so
\* repeats for ever).
C29_EveryPassProgresses ==
    pc_aff \in Policies => PassResult # St

-----------------------------------------------------------------------------
(*                 SCHEDULER BASE: THE RUN-STATE PROTOCOL                  *)

Threads == 0 .. PoolSize - 1

\* einsums::runtime_state, in the order the comparisons use (select_active_pu
\* relaxes suspended -> sleeping -> stopping; terminating and stopped come last).
RuntimeStates ==
    <<"initialized", "running", "suspended", "sleeping", "stopping", "terminating", "stopped">>

Rank(state) == CHOOSE k \in 1 .. Len(RuntimeStates) : RuntimeStates[k] = state

\* The states the model passes to set_all_states_at_least.
AtLeastTargets == {"running", "stopping", "terminating"}

NoPrior == [i \in Threads |-> "initialized"]

\* scheduler_base::scheduler_base (lines 150-170): every state is `initialized`
InitSched ==
    /\ _states = [i \in Threads |-> "initialized"]
    /\ pc_thr = [i \in Threads |-> "out"]
    /\ expected = [i \in Threads |-> "sleeping"]
    /\ ctl = [pc |-> "idle", s |-> "initialized", i |-> 0]
    /\ prior = NoPrior
    /\ interfered = FALSE
    /\ notified = [i \in Threads |-> FALSE]

\* A thread stored to _states: a running set_all_states_at_least is no longer
\* undisturbed (its snapshot of the prior states is dropped with that).
Interfere ==
    /\ interfered' = (ctl.pc # "idle")
    /\ prior' = NoPrior

\* _states[num_thread].store(runtime_state::sleeping);   (line 212)
Suspend(i) ==
    /\ pc_thr[i] \in {"out", "returned"}
    /\ _states' = [_states EXCEPT ![i] = "sleeping"]
    /\ pc_thr' = [pc_thr EXCEPT ![i] = "stored"]
    /\ expected' = [expected EXCEPT ![i] = "sleeping"]
    /\ Interfere
    /\ UNCHANGED <<ctl, notified, affVars, bufVars, rtVars, extVars>>

\* std::unique_lock l(_suspend_mtxs[num_thread]); _suspend_conds[num_thread].wait(l);
SuspendWait(i) ==
    /\ pc_thr[i] = "stored"
    /\ pc_thr' = [pc_thr EXCEPT ![i] = "waiting"]
    /\ UNCHANGED <<_states, expected, ctl, prior, interfered, notified, affVars, bufVars, rtVars, extVars>>

\* condition_variable::wait may return without a notification.
SpuriousWake(i) ==
    /\ pc_thr[i] = "waiting"
    /\ pc_thr' = [pc_thr EXCEPT ![i] = "woken"]
    /\ UNCHANGED <<_states, expected, ctl, prior, interfered, notified, affVars, bufVars, rtVars, extVars>>

\* The threads of `targets` that are inside suspend, past the store of sleeping
\* and not yet woken.
Suspending(targets) == {i \in targets : pc_thr[i] \in {"stored", "waiting"}}

\* scheduler_base::resume (lines 225-234): notify_one on one condition variable,
\* or on all of them for num_thread == std::size_t(-1), without taking
\* _suspend_mtxs. A notification wakes a thread blocked in wait; one that finds
\* no waiter (the thread is between line 212 and line 214) is not remembered.
Resume(targets) ==
    /\ Suspending(targets) # {}
    /\ pc_thr' = [i \in Threads |->
                    IF i \in targets /\ pc_thr[i] = "waiting" THEN "woken" ELSE pc_thr[i]]
    /\ notified' = [i \in Threads |-> notified[i] \/ (i \in targets /\ pc_thr[i] = "stored")]
    /\ UNCHANGED <<_states, expected, ctl, prior, interfered, affVars, bufVars, rtVars, extVars>>

C5_StoreRunning(current, expect, desired) == desired

\* std::atomic::compare_exchange_strong(expected, desired): the value stored
compare_exchange_strong(current, expect, desired) ==
    IF current = expect THEN desired ELSE current

\* lines 219-222: the compare-exchange after the wait, and the assertion on
\* `expected` (which a release build compiles out).
SuspendWake(i) ==
    /\ pc_thr[i] = "woken"
    /\ expected' = [expected EXCEPT ![i] = _states[i]]
    /\ _states' = [_states EXCEPT ![i] = compare_exchange_strong(@, "sleeping", "running")]
    /\ IF _states[i] \in {"sleeping", "stopping", "terminating"}
       THEN pc_thr' = [pc_thr EXCEPT ![i] = "returned"]
       ELSE \E p \in {"returned", "aborted"} : pc_thr' = [pc_thr EXCEPT ![i] = p]
    /\ IF _states'[i] # _states[i] THEN Interfere ELSE UNCHANGED <<prior, interfered>>
    /\ notified' = [notified EXCEPT ![i] = FALSE]
    /\ UNCHANGED <<ctl, affVars, bufVars, rtVars, extVars>>

C6_StoreAlways(state, s) == TRUE

\* if (state < s)   (line 324)
BelowTarget(state, s) == Rank(state) < Rank(s)

\* scheduler_base::set_all_states_at_least(s) is entered
SetAllStatesAtLeast(s) ==
    /\ ctl.pc \in {"idle", "done"}
    /\ ctl' = [pc |-> "load", s |-> s, i |-> 0]
    /\ prior' = _states
    /\ interfered' = FALSE
    /\ UNCHANGED <<_states, pc_thr, expected, notified, affVars, bufVars, rtVars, extVars>>

AfterThread ==
    IF ctl.i + 1 = PoolSize THEN [ctl EXCEPT !.pc = "done", !.i = 0]
    ELSE [ctl EXCEPT !.pc = "load", !.i = @ + 1]

\* the atomic load of `state < s` for the loop's current thread
AtLeastLoad ==
    /\ ctl.pc = "load"
    /\ ctl' = IF BelowTarget(_states[ctl.i], ctl.s) THEN [ctl EXCEPT !.pc = "store"]
              ELSE AfterThread
    /\ UNCHANGED <<_states, pc_thr, expected, prior, interfered, notified, affVars, bufVars, rtVars, extVars>>

\* state.store(s)   (line 325)
AtLeastStore ==
    /\ ctl.pc = "store"
    /\ _states' = [_states EXCEPT ![ctl.i] = ctl.s]
    /\ ctl' = AfterThread
    /\ UNCHANGED <<pc_thr, expected, prior, interfered, notified, affVars, bufVars, rtVars, extVars>>

\* scheduler_base::has_reached_state (lines 331-338)
has_reached_state(s) == \A i \in Threads : ~(Rank(_states[i]) < Rank(s))

NextSched ==
    \/ \E i \in Threads : Suspend(i)
    \/ \E i \in Threads : SuspendWait(i)
    \/ \E i \in Threads : SpuriousWake(i)
    \/ \E i \in Threads : Resume({i})
    \/ Resume(Threads)
    \/ \E i \in Threads : SuspendWake(i)
    \/ \E s \in AtLeastTargets : SetAllStatesAtLeast(s)
    \/ AtLeastLoad
    \/ AtLeastStore

\* ---- claims about the run-state protocol ----

MaxState(a, b) == IF Rank(a) < Rank(b) THEN b ELSE a

\* C5: a state advanced to stopping or terminating while the thread is inside
\* suspend is still that state when suspend returns; the wake-up stores
\* running only over sleeping.
C5_WakePreservesEscalated ==
    [][\A i \in Threads :
         (pc_thr[i] = "woken" /\ pc_thr'[i] # "woken")
            => /\ _states[i] \in {"stopping", "terminating"} => _states'[i] = _states[i]
               /\ _states[i] # "sleeping" => _states'[i] = _states[i]
               /\ _states[i] = "sleeping" => _states'[i] = "running"]_vars

\* suspend(i) returned, having found the state advanced to stopping behind its back
C5_Witness ==
    \E i \in Threads :
        /\ pc_thr[i] = "returned"
        /\ expected[i] = "stopping"
        /\ _states[i] = "stopping"

\* C6: after set_all_states_at_least(s) with no interleaved writer every
\* state is the larger of its prior state and s, and has_reached_state(s) holds.
C6_AtLeastRaisesToMax ==
    (ctl.pc = "done" /\ ~interfered)
        => /\ \A i \in Threads : _states[i] = MaxState(prior[i], ctl.s)
           /\ has_reached_state(ctl.s)

\* a completed, undisturbed call that raised one thread and left a higher one alone
C6_Witness ==
    /\ ctl.pc = "done" /\ ~interfered
    /\ \E i \in Threads : Rank(prior[i]) < Rank(ctl.s) /\ _states[i] = ctl.s
    /\ \E i \in Threads : Rank(prior[i]) > Rank(ctl.s) /\ _states[i] = prior[i]

\* C24: no wake-up is lost: once resume(i) has been called after suspend(i)
\* stored sleeping, thread i is not left blocked in the wait of suspend(i).
C24_NoLostWakeup ==
    \A i \in Threads : notified[i] => pc_thr[i] # "waiting"

\* C25: a state that has reached stopping or terminating is never moved back
\* by a step of suspend, resume or set_all_states_at_least.
C25_NoRegression ==
    [][\A i \in Threads :
         Rank(_states[i]) >= Rank("stopping") => Rank(_states'[i]) >= Rank(_states[i])]_vars


-----------------------------------------------------------------------------
(*                            CIRCULAR BUFFER                              *)

Callers == 1 .. BufCallers
NoItem == 0
Free == 0

\* explicit CircularBuffer(size_t size), and the member initialisers (lines 364-366)
CircularBuffer(size) ==
    /\ _max_size = size
    /\ _buffer = [k \in 0 .. size - 1 |-> NoItem]
    /\ _head = 0
    /\ _tail = 0
    /\ _full = FALSE
    /\ _mutex = Free
    /\ pc_buf = [th \in Callers |-> "idle"]
    /\ item = [th \in Callers |-> NoItem]
    /\ issued = 0
    /\ log = <<>>
    /\ resets = 0

\* The members put() and reset() work on, as one value.
Members == [buffer |-> _buffer, head |-> _head, tail |-> _tail, full |-> _full, max_size |-> _max_size]

SetMembers(b) ==
    /\ _buffer' = b.buffer
    /\ _head' = b.head
    /\ _tail' = b.tail
    /\ _full' = b.full
    /\ UNCHANGED _max_size

\* _buffer[_head] = item;
put_write(b, it) == [b EXCEPT !.buffer[b.head] = it]

C7_NoEvict(b) == b

\* if (_full) { _tail = (_tail + 1) % _max_size; }
put_tail(b) == IF b.full THEN [b EXCEPT !.tail = (b.tail + 1) % b.max_size] ELSE b

\* _head = (_head + 1) % _max_size;
put_head(b) == [b EXCEPT !.head = (b.head + 1) % b.max_size]

\* _full = _head == _tail;
put_full(b) == [b EXCEPT !.full = (b.head = b.tail)]

C8_NoLock(m) == TRUE

\* std::lock_guard<std::mutex> lock(_mutex) can take the mutex
lock_guard(m) == m = Free

At(th, where) == pc_buf[th] = where
Goto(th, where) == pc_buf' = [pc_buf EXCEPT ![th] = where]

\* a caller enters put(item); the items are numbered in the order of the calls
Put(th) ==
    /\ At(th, "idle")
    /\ issued < MaxPuts
    /\ issued' = issued + 1
    /\ item' = [item EXCEPT ![th] = issued + 1]
    /\ Goto(th, "put_lock")
    /\ UNCHANGED <<_max_size, _buffer, _head, _tail, _full, _mutex, log, resets, affVars, schedVars, rtVars, extVars>>

PutLock(th) ==
    /\ At(th, "put_lock")
    /\ lock_guard(_mutex)
    /\ _mutex' = th
    /\ Goto(th, "put_write")
    /\ UNCHANGED <<_max_size, _buffer, _head, _tail, _full, item, issued, log, resets, affVars, schedVars, rtVars, extVars>>

PutWrite(th) ==
    /\ At(th, "put_write")
    /\ SetMembers(put_write(Members, item[th]))
    /\ Goto(th, "put_tail")
    /\ UNCHANGED <<_mutex, item, issued, log, resets, affVars, schedVars, rtVars, extVars>>

PutTail(th) ==
    /\ At(th, "put_tail")
    /\ SetMembers(put_tail(Members))
    /\ Goto(th, "put_head")
    /\ UNCHANGED <<_mutex, item, issued, log, resets, affVars, schedVars, rtVars, extVars>>

PutHead(th) ==
    /\ At(th, "put_head")
    /\ SetMembers(put_head(Members))
    /\ Goto(th, "put_full")
    /\ UNCHANGED <<_mutex, item, issued, log, resets, affVars, schedVars, rtVars, extVars>>

PutFull(th) ==
    /\ At(th, "put_full")
    /\ SetMembers(put_full(Members))
    /\ Goto(th, "put_unlock")
    /\ UNCHANGED <<_mutex, item, issued, log, resets, affVars, schedVars, rtVars, extVars>>

\* the lock_guard's destructor: put() returns
PutUnlock(th) ==
    /\ At(th, "put_unlock")
    /\ _mutex' = Free
    /\ log' = Append(log, item[th])
    /\ item' = [item EXCEPT ![th] = NoItem]
    /\ Goto(th, "idle")
    /\ UNCHANGED <<_max_size, _buffer, _head, _tail, _full, issued, resets, affVars, schedVars, rtVars, extVars>>

\* a caller enters reset()
Reset(th) ==
    /\ At(th, "idle")
    /\ resets < MaxResets
    /\ resets' = resets + 1
    /\ Goto(th, "reset_lock")
    /\ UNCHANGED <<_max_size, _buffer, _head, _tail, _full, _mutex, item, issued, log, affVars, schedVars, rtVars, extVars>>

ResetLock(th) ==
    /\ At(th, "reset_lock")
    /\ lock_guard(_mutex)
    /\ _mutex' = th
    /\ Goto(th, "reset_head")
    /\ UNCHANGED <<_max_size, _buffer, _head, _tail, _full, item, issued, log, resets, affVars, schedVars, rtVars, extVars>>

\* _head = _tail;
ResetHead(th) ==
    /\ At(th, "reset_head")
    /\ SetMembers([Members EXCEPT !.head = _tail])
    /\ Goto(th, "reset_full")
    /\ UNCHANGED <<_mutex, item, issued, log, resets, affVars, schedVars, rtVars, extVars>>

\* _full = false;
ResetFull(th) ==
    /\ At(th, "reset_full")
    /\ SetMembers([Members EXCEPT !.full = FALSE])
    /\ Goto(th, "reset_unlock")
    /\ UNCHANGED <<_mutex, item, issued, log, resets, affVars, schedVars, rtVars, extVars>>

ResetUnlock(th) ==
    /\ At(th, "reset_unlock")
    /\ _mutex' = Free
    /\ log' = <<>>
    /\ Goto(th, "idle")
    /\ UNCHANGED <<_max_size, _buffer, _head, _tail, _full, item, issued, resets, affVars, schedVars, rtVars, extVars>>

\* size()  (lines 342-354)
size(b) ==
    IF b.full THEN b.max_size
    ELSE IF b.head >= b.tail THEN b.head - b.tail
    ELSE b.max_size + b.head - b.tail

\* full(), empty()
full(b) == b.full
empty(b) == ~b.full /\ b.head = b.tail

NextBuf ==
    \/ \E th \in Callers : Put(th)
    \/ \E th \in Callers : PutLock(th)
    \/ \E th \in Callers : PutWrite(th)
    \/ \E th \in Callers : PutTail(th)
    \/ \E th \in Callers : PutHead(th)
    \/ \E th \in Callers : PutFull(th)
    \/ \E th \in Callers : PutUnlock(th)
    \/ \E th \in Callers : Reset(th)
    \/ \E th \in Callers : ResetLock(th)
    \/ \E th \in Callers : ResetHead(th)
    \/ \E th \in Callers : ResetFull(th)
    \/ \E th \in Callers : ResetUnlock(th)

\* ---- claims about CircularBuffer ----

\* C7: after n put calls since construction or reset, size() = min(n, c),
\* full() holds exactly when n >= c, and the buffer holds the last min(n, c)
\* items in order from the read position, the oldest of them first.
C7_KeepsLastItems ==
    _mutex = Free =>
        LET n == Len(log)
            k == Min(n, _max_size)
        IN  /\ size(Members) = k
            /\ full(Members) <=> n >= _max_size
            /\ \A j \in 0 .. k - 1 : _buffer[(_tail + j) % _max_size] = log[n - k + 1 + j]

\* five puts into a buffer of capacity three: the third item is the oldest kept
C7_Witness ==
    /\ _mutex = Free
    /\ _max_size = 3 /\ Len(log) = 5
    /\ size(Members) = 3 /\ full(Members)
    /\ _buffer[_tail] = log[3]

\* the whole of put(item), run alone
put(b, it) == put_full(put_head(put_tail(put_write(b, it))))

RECURSIVE PutAll(_, _)
PutAll(b, items) == IF items = <<>> THEN b ELSE PutAll(put(b, Head(items)), Tail(items))

Constructed(c) ==
    [buffer |-> [k \in 0 .. c - 1 |-> NoItem], head |-> 0, tail |-> 0, full |-> FALSE, max_size |-> c]

Orders(k) == {o \in [1 .. k -> 1 .. k] : \A i, j \in 1 .. k : i # j => o[i] # o[j]}

AllReturned == \A th \in Callers : pc_buf[th] = "idle"

\* C8: when k concurrently issued puts have all returned, the buffer is what
\* some sequential order of the same k puts produces, and size() = min(k, c).
C8_PutsSerialise ==
    (AllReturned /\ resets = 0)
        => /\ \E o \in Orders(issued) : Members = PutAll(Constructed(_max_size), o)
           /\ size(Members) = Min(issued, _max_size)

\* both callers were inside put at once and the later call went first
C8_Witness ==
    /\ AllReturned /\ resets = 0
    /\ issued >= 3
    /\ log[1] = 2 /\ log[2] = 1

\* ---- size(), empty() and full() called while puts run ----

NoRead == [fn |-> "none", size |-> 0, flag |-> FALSE, lo |-> 0, hi |-> 0]

InitRd == rd = NoRead

rdRest == <<affVars, schedVars, rtVars, gpuVars, krVars, tmVars, idleVars, pollVars, puVars, upd>>

\* size(), empty() or full() (lines 336-354) returns. None of them takes _mutex;
\* the members are read as they stand at that moment. Recorded with the result:
\* how many puts had returned (lo) and how many had been called (hi).
Read(fn) ==
    /\ rd' = [fn |-> fn,
              size |-> IF fn = "size" THEN size(Members) ELSE 0,
              flag |-> IF fn = "empty" THEN empty(Members)
                       ELSE IF fn = "full" THEN full(Members) ELSE FALSE,
              lo |-> Len(log), hi |-> issued]
    /\ UNCHANGED <<bufVars, rdRest>>

NextBufRead ==
    \/ \E th \in Callers : Put(th)
    \/ \E th \in Callers : PutLock(th)
    \/ \E th \in Callers : PutWrite(th)
    \/ \E th \in Callers : PutTail(th)
    \/ \E th \in Callers : PutHead(th)
    \/ \E th \in Callers : PutFull(th)
    \/ \E th \in Callers : PutUnlock(th)
    \/ \E fn \in {"size", "empty", "full"} : Read(fn)

\* C30: size(), empty() and full() called while puts run return what the buffer
\* had before or after one of those puts (after j puts, for some j between the
\* number of puts that had returned and the number that had been called), and do
\* not report size 0 or empty once a put has returned.
C30_ReadersSeePutStates ==
    /\ rd.fn = "size" => /\ \E j \in rd.lo .. rd.hi : rd.size = Min(j, _max_size)
                         /\ rd.lo >= 1 => rd.size # 0
    /\ rd.fn = "empty" => /\ \E j \in rd.lo .. rd.hi : rd.flag <=> (j = 0)
                          /\ rd.lo >= 1 => ~rd.flag
    /\ rd.fn = "full" => \E j \in rd.lo .. rd.hi : rd.flag <=> (j >= _max_size)

-----------------------------------------------------------------------------
(*                           RUNTIME LIFECYCLE                             *)

IdleArgs ==
    [blocking |-> TRUE, has_f |-> FALSE, no_argv |-> FALSE, install_signal_handlers |-> FALSE,
     gpu |-> FALSE, quick_exit |-> FALSE, startup |-> FALSE, shutdown |-> FALSE,
     entry_result |-> 0, pre_shutdown |-> 0, more_shutdown |-> 0]

\* What one call of initialize/start is made with: the entry point (blocking
\* initialize or non-blocking start), the entry function (has_f: not empty)
\* and its result, argc/argv (no_argv: argc == 0 or argv == nullptr),
\* params.startup/params.shutdown (not empty), the parsed configuration's
\* install_signal_handlers, the build (gpu: EINSUMS_COMPUTE_CODE, quick_exit:
\* EINSUMS_HAVE_CXX11_STD_QUICK_EXIT), and how many pre-shutdown and further
\* shutdown functions the program registers with the Runtime.
CallArgs ==
    [blocking : BOOLEAN, has_f : BOOLEAN, no_argv : BOOLEAN, install_signal_handlers : BOOLEAN,
     gpu : BOOLEAN, quick_exit : BOOLEAN, startup : BOOLEAN, shutdown : BOOLEAN,
     entry_result : {0, 1}, pre_shutdown : 0 .. MaxFuncs, more_shutdown : 0 .. MaxFuncs]

InitRt ==
    /\ pc_rt = "idle"
    /\ pc_fin = "idle"
    /\ args = IdleArgs
    /\ trace = <<>>
    /\ fin_trace = <<>>
    /\ live = 0
    /\ result = 0

If(cond, event) == IF cond THEN <<event>> ELSE <<>>

\* One statement of the startup path: from pc `at`, the events it causes, to pc `to`.
StartupStep(at, events, to) ==
    /\ pc_rt = at
    /\ trace' = trace \o events
    /\ pc_rt' = to
    /\ UNCHANGED <<pc_fin, args, fin_trace, live, result, affVars, schedVars, bufVars, extVars>>

\* initialize(...)/start(...) -> detail::run_impl: argc/argv defaulting (lines 145-148)
RunImpl ==
    /\ pc_rt = "idle"
    /\ \E a \in CallArgs :
         /\ a.has_f \/ a.entry_result = 0
         /\ args' = a
         /\ trace' = If(a.no_argv, "default_args")
    /\ pc_rt' = "handlers"
    /\ UNCHANGED <<pc_fin, fin_trace, live, result, affVars, schedVars, bufVars, extVars>>

\* std::signal(SIGABRT, on_abort); std::atexit(on_exit); std::at_quick_exit(on_exit)
RegisterDefaultHandlers ==
    StartupStep("handlers",
                <<"sigabrt_handler", "atexit_handler">> \o If(args.quick_exit, "at_quick_exit_handler"),
                "config")

\* RuntimeConfiguration config(argc, argv);   (line 100)
ParseConfiguration == StartupStep("config", <<"parse_config">>, "signals")

C10_AlwaysInstall(a) == <<"signal_handlers">>

\* if (config.einsums.install_signal_handlers) { set_signal_handlers(); }
set_signal_handlers_if_configured(a) == If(a.install_signal_handlers, "signal_handlers")

InstallSignalHandlers == StartupStep("signals", set_signal_handlers_if_configured(args), "logging")

\* init_logging(config);
InitLogging == StartupStep("logging", <<"init_logging">>, "gpu")

\* #if defined(EINSUMS_COMPUTE_CODE) gpu::initialize();
GpuInitialize == StartupStep("gpu", If(args.gpu, "gpu_initialize"), "profile")

\* profile::initialize();
ProfileInitialize == StartupStep("profile", <<"profile_initialize">>, "blas")

\* blas::initialize();
BlasInitialize == StartupStep("blas", <<"blas_initialize">>, "h5")

\* H5Eset_auto(0, nullptr, nullptr);
DisableH5Diagnostics == StartupStep("h5", <<"h5_diagnostics_off">>, "seed")

\* einsums::random_engine = std::default_random_engine(...now...);
SeedRandomEngine == StartupStep("seed", <<"seed_random_engine">>, "construct")

\* rt.reset(new Runtime(config, true));
ConstructRuntime ==
    /\ pc_rt = "construct"
    /\ trace' = Append(trace, "construct_runtime")
    /\ live' = live + 1
    /\ pc_rt' = "register"
    /\ UNCHANGED <<pc_fin, args, fin_trace, result, affVars, schedVars, bufVars, extVars>>

\* add_startup_functions (lines 69-77)
AddStartupFunctions ==
    StartupStep("register",
                If(args.startup, "add_startup_function") \o If(args.shutdown, "add_shutdown_function"),
                "invoke")

\* if (f) return rt.run(std::bind_front(f, cfg)); return rt.run();
RunEntry ==
    \/ /\ args.has_f
       /\ StartupStep("invoke", <<"entry_function">>, "in_entry")
    \/ /\ ~args.has_f
       /\ StartupStep("invoke", <<>>, "run_returned")

\* the entry function returns (a finalize it called has returned before)
EntryReturn ==
    /\ pc_fin \in {"idle", "done"}
    /\ StartupStep("in_entry", <<>>, "run_returned")

\* what rt.run(...) returns: the entry function's result, 0 without one
rt_run(a) == IF a.has_f THEN a.entry_result ELSE 0

\* start (lines 182-184, 189-191, 196-198):
\* if (detail::run_impl(...) != 0) { EINSUMS_UNREACHABLE; }
start_check(run_impl_result) == IF run_impl_result # 0 THEN "fatal" ELSE "returned"

\* lines 131-140: blocking, run's result is returned and the unique_ptr deletes
\* the Runtime; otherwise the result is dropped, the Runtime released from the
\* unique_ptr (it stays alive) and 0 returned.
Return ==
    /\ pc_rt = "run_returned"
    /\ IF args.blocking
       THEN /\ result' = rt_run(args)
            /\ live' = live - 1
            /\ pc_rt' = "returned"
       ELSE /\ result' = 0
            /\ UNCHANGED live
            /\ pc_rt' = start_check(0)
    /\ UNCHANGED <<pc_fin, args, trace, fin_trace, affVars, schedVars, bufVars, extVars>>

\* ---- finalize ----

\* The Runtime's registered functions, in registration order.
pre_shutdown_functions(a) == [k \in 1 .. a.pre_shutdown |-> <<"pre_shutdown_function", k>>]
shutdown_functions(a) ==
    If(a.shutdown, <<"shutdown_function", 0>>)
        \o [k \in 1 .. a.more_shutdown |-> <<"shutdown_function", k>>]

\* Runtime::call_shutdown_functions(pre_shutdown)
call_shutdown_functions(a, pre_shutdown) ==
    IF pre_shutdown THEN pre_shutdown_functions(a) ELSE shutdown_functions(a)

FinalizeStep(at, events, to) ==
    /\ pc_fin = at
    /\ fin_trace' = fin_trace \o events
    /\ pc_fin' = to
    /\ UNCHANGED <<pc_rt, args, trace, live, result, affVars, schedVars, bufVars, extVars>>

C9_ShutdownFirst(a) == call_shutdown_functions(a, FALSE)

\* rt.call_shutdown_functions(true);   (line 203)
finalize_first_call(a) == call_shutdown_functions(a, TRUE)

\* rt.call_shutdown_functions(false);  (line 205)
finalize_second_call(a) == call_shutdown_functions(a, FALSE)

\* finalize() is called, from the entry function or after start() returned:
\* auto &rt = detail::runtime(); rt.call_shutdown_functions(true);
Finalize ==
    /\ pc_rt \in {"in_entry", "returned"}
    /\ live > 0
    /\ FinalizeStep("idle", finalize_first_call(args), "shutdown")

FinalizeShutdown == FinalizeStep("shutdown", finalize_second_call(args), "deinit")

\* rt.deinit_global_data();
FinalizeDeinit == FinalizeStep("deinit", << <<"deinit_global_data", 0>> >>, "blas")

\* blas::finalize();
FinalizeBlas == FinalizeStep("blas", << <<"blas_finalize", 0>> >>, "profile")

\* profile::finalize();
FinalizeProfile == FinalizeStep("profile", << <<"profile_finalize", 0>> >>, "gpu")

\* #if defined(EINSUMS_COMPUTE_CODE) gpu::finalize();
FinalizeGpu == FinalizeStep("gpu", If(args.gpu, <<"gpu_finalize", 0>>), "done")

NextRt ==
    \/ RunImpl
    \/ RegisterDefaultHandlers
    \/ ParseConfiguration
    \/ InstallSignalHandlers
    \/ InitLogging
    \/ GpuInitialize
    \/ ProfileInitialize
    \/ BlasInitialize
    \/ DisableH5Diagnostics
    \/ SeedRandomEngine
    \/ ConstructRuntime
    \/ AddStartupFunctions
    \/ RunEntry
    \/ EntryReturn
    \/ Return
    \/ Finalize
    \/ FinalizeShutdown
    \/ FinalizeDeinit
    \/ FinalizeBlas
    \/ FinalizeProfile
    \/ FinalizeGpu

\* ---- claims about the runtime lifecycle ----

IsPrefix(p, q) == Len(p) <= Len(q) /\ SubSeq(q, 1, Len(p)) = p
Range(q) == {q[k] : k \in DOMAIN q}

\* the order the claim gives: pre-shutdown functions, shutdown functions,
\* global runtime data, dense linear algebra, profiling, GPU (GPU builds only)
FinalizeOrder(a) ==
    [k \in 1 .. a.pre_shutdown |-> <<"pre_shutdown_function", k>>]
        \o (IF a.shutdown THEN << <<"shutdown_function", 0>> >> ELSE <<>>)
        \o [k \in 1 .. a.more_shutdown |-> <<"shutdown_function", k>>]
        \o << <<"deinit_global_data", 0>>, <<"blas_finalize", 0>>, <<"profile_finalize", 0>> >>
        \o (IF a.gpu THEN << <<"gpu_finalize", 0>> >> ELSE <<>>)

\* C9: finalize runs every pre-shutdown function, then every shutdown
\* function, then releases the global runtime data, then finalizes dense
\* linear algebra, profiling and (GPU builds) the GPU backend, in this order.
C9_FinalizeInOrder ==
    /\ IsPrefix(fin_trace, FinalizeOrder(args))
    /\ pc_fin = "done" => fin_trace = FinalizeOrder(args)

\* a finished finalize of a GPU build with functions of both kinds registered
C9_Witness ==
    /\ pc_fin = "done"
    /\ args.gpu /\ args.pre_shutdown >= 2 /\ args.shutdown /\ args.more_shutdown >= 1
    /\ Len(fin_trace) >= 8

\* the place of each startup event in the order the claim gives
StartupOrder ==
    <<"default_args", "sigabrt_handler", "atexit_handler", "at_quick_exit_handler",
      "parse_config", "signal_handlers", "init_logging", "gpu_initialize",
      "profile_initialize", "blas_initialize", "h5_diagnostics_off", "seed_random_engine",
      "construct_runtime", "add_startup_function", "add_shutdown_function", "entry_function">>

Place(e) == CHOOSE k \in 1 .. Len(StartupOrder) : StartupOrder[k] = e

\* what has to be done before the entry function is invoked
BeforeEntry(a) ==
    {"sigabrt_handler", "atexit_handler", "parse_config", "init_logging", "profile_initialize",
     "blas_initialize", "h5_diagnostics_off", "seed_random_engine", "construct_runtime"}
        \cup (IF a.no_argv THEN {"default_args"} ELSE {})
        \cup (IF a.install_signal_handlers THEN {"signal_handlers"} ELSE {})
        \cup (IF a.gpu THEN {"gpu_initialize"} ELSE {})
        \cup (IF a.startup THEN {"add_startup_function"} ELSE {})
        \cup (IF a.shutdown THEN {"add_shutdown_function"} ELSE {})

\* C10: the startup events occur in the order given, signal handlers are
\* installed if and only if configured, and the entry function is invoked
\* only after every preceding step.
C10_StartupInOrder ==
    /\ \A i, j \in DOMAIN trace : i < j => Place(trace[i]) < Place(trace[j])
    /\ "init_logging" \in Range(trace)
          => ("signal_handlers" \in Range(trace) <=> args.install_signal_handlers)
    /\ "default_args" \in Range(trace) => args.no_argv
    /\ "gpu_initialize" \in Range(trace) => args.gpu
    /\ "entry_function" \in Range(trace) => BeforeEntry(args) \subseteq Range(trace)

\* the entry function runs in a call that took every optional step
C10_Witness ==
    /\ pc_rt = "in_entry"
    /\ args.no_argv /\ args.install_signal_handlers /\ args.gpu /\ args.startup /\ args.shutdown
    /\ trace[Len(trace)] = "entry_function"

\* the Runtime has been constructed by the entry point
Constructed_rt ==
    pc_rt \in {"register", "invoke", "in_entry", "run_returned", "returned", "fatal"}

\* C11: at most one Runtime exists at any time; it exists from its
\* construction in initialize/start until finalize, and is gone once finalize
\* has finished.
C11_OneRuntimeUntilFinalize ==
    /\ live <= 1
    /\ (Constructed_rt /\ pc_fin # "done") => live = 1
    /\ pc_fin = "done" => live = 0

\* C12: blocking initialize returns the entry function's result; non-blocking
\* start keeps the Runtime alive and does not return normally when the
\* startup run's result is not zero.
C12_EntryResultNotDropped ==
    pc_rt = "returned"
        => IF args.blocking
           THEN result = rt_run(args)
           ELSE live = 1 /\ rt_run(args) = 0

-----------------------------------------------------------------------------
(*                       GPU CONTRACTION KERNELS                           *)

(* An element of C: its number, and whether that number was computed from   *)
(* the element's content before the contraction (`old`: it would be NaN had *)
(* that content been NaN, since NaN * x and NaN + x are NaN).               *)
Value(n, old) == [n |-> n, old |-> old]

\* 0 * value, which keeps a NaN
C15_MultiplyByZero == Value(0, TRUE)

\* make_zero(value)
make_zero == Value(0, FALSE)
\* is_zero(value)
is_zero(value) == value = 0
\* C[curr_index] *= C_prefactor, on the value read
Scaled(v, C_prefactor) == [v EXCEPT !.n = @ * C_prefactor]
\* atomicAdd_wrap(address, value)
atomicAdd_wrap(v, value) == [v EXCEPT !.n = @ + value]

\* the operands' elements, by linear position
A(sentinel) == 1 + (sentinel % 2)
B(sentinel) == 1 + (sentinel % 3)

RECURSIVE Product(_)
Product(q) == IF q = <<>> THEN 1 ELSE Head(q) * Product(Tail(q))

\* dims_to_strides: out[i] = product of the dimensions after i
dims_to_strides(dims) == [i \in 1 .. Len(dims) |-> Product(SubSeq(dims, i + 1, Len(dims)))]

RECURSIVE sentinel_to_indices(_, _)
sentinel_to_indices(sentinel, unique_strides) ==
    IF unique_strides = <<>> THEN <<>>
    ELSE IF Head(unique_strides) # 0
         THEN <<sentinel \div Head(unique_strides)>>
                  \o sentinel_to_indices(sentinel % Head(unique_strides), Tail(unique_strides))
         ELSE <<0>> \o sentinel_to_indices(sentinel, Tail(unique_strides))

\* X_sentinel += X_stride[i] * Unique_index[X_index_table[i]]
Sentinel(stride, index_table, Unique_index) ==
    SumSeq([i \in 1 .. Len(stride) |-> stride[i] * Unique_index[index_table[i]]])

\* The general kernel's arguments for C[i,j] from A[i,k] and B[k,j] with
\* unique indices (i, j, k).
GeneralContraction(ni, nk, nj) ==
    [kernel |-> "general", unique_dims |-> <<ni, nj, nk>>,
     C_index_table |-> <<1, 2>>, A_index_table |-> <<1, 3>>, B_index_table |-> <<3, 2>>,
     C_stride |-> <<nj, 1>>, A_stride |-> <<nk, 1>>, B_stride |-> <<nj, 1>>,
     C_size |-> ni * nj]

\* The rank-zero kernel's arguments for scalar C from A[i] and B[i].
ZeroRankContraction(n) ==
    [kernel |-> "zero_rank", unique_dims |-> <<n>>,
     C_index_table |-> <<>>, A_index_table |-> <<1>>, B_index_table |-> <<1>>,
     C_stride |-> <<>>, A_stride |-> <<1>>, B_stride |-> <<1>>,
     C_size |-> 1]

\* The contractions tried under every interleaving: every shape up to MaxExtent
\* whose result is square.
Contractions ==
    { GeneralContraction(n, nk, n) : n \in 1 .. MaxExtent, nk \in 1 .. MaxExtent }
    \cup { ZeroRankContraction(n) : n \in 1 .. MaxExtent }

\* A contraction on a grid, with its prefactors. `prior` is the number in
\* every element of C before the contraction.
OnGrids(contractions) ==
    { c @@ [blocks |-> b, block_threads |-> t, C_prefactor |-> cp, AB_prefactor |-> ab, prior |-> 3] :
        c \in contractions, b \in 1 .. MaxBlocks, t \in 1 .. MaxBlockThreads,
        cp \in {0, 1}, ab \in {0, 1} }

NoLaunch ==
    [kernel |-> "none", unique_dims |-> <<>>, C_index_table |-> <<>>, A_index_table |-> <<>>,
     B_index_table |-> <<>>, C_stride |-> <<>>, A_stride |-> <<>>, B_stride |-> <<>>, C_size |-> 0,
     blocks |-> 0, block_threads |-> 0, C_prefactor |-> 0, AB_prefactor |-> 0, prior |-> 0]

\* get_worker_info(thread_id, kernel_size): workers are numbered across blocks
kernel_size(l) == l.blocks * l.block_threads
Workers(l) == 0 .. kernel_size(l) - 1
BlockOf(l, w) == w \div l.block_threads

\* the launches with at most MaxWorkers workers: the rank-zero kernel with every
\* prefactor, the general kernel with C_prefactor 0 (NextMatmul has the others)
Launches ==
    {l \in OnGrids(Contractions) :
        /\ kernel_size(l) <= MaxWorkers
        /\ l.kernel = "general" => l.C_prefactor = 0}

\* A of extents ExtI x ExtK times B of extents ExtK x ExtJ: on one block with
\* every prefactor, and on several blocks with C_prefactor 0 and AB_prefactor 1.
MatmulLaunches ==
    {l \in OnGrids({GeneralContraction(ExtI, ExtK, ExtJ)}) :
        /\ kernel_size(l) <= MaxWorkers
        /\ l.blocks > 1 => (l.C_prefactor = 0 /\ l.AB_prefactor = 1)}

unique_strides(l) == dims_to_strides(l.unique_dims)
\* ::std::get<0>(unique_dims) * unique_strides[0]
max_index(l) == l.unique_dims[1] * unique_strides(l)[1]

InitGpu ==
    /\ launch = NoLaunch
    /\ gpu_pc = <<>>
    /\ C = <<>>
    /\ curr_index = <<>>
    /\ work = <<>>
    /\ loaded = <<>>
    /\ adds = <<>>
    /\ spins = <<>>
    /\ lost = 0

gpuRest == <<coreVars, krVars, tmVars, idleVars, pollVars, lateVars>>

\* where a worker whose curr_index is `index` stands: in the loop, or past it
LoopOr(index, bound, inside, after) == IF index < bound THEN inside ELSE after

Started(l, bound, inside, after) ==
    /\ launch' = l
    /\ gpu_pc' = [w \in Workers(l) |-> LoopOr(w, bound, inside, after)]
    /\ curr_index' = [w \in Workers(l) |-> w]
    /\ work' = [w \in Workers(l) |-> 0]
    /\ loaded' = [w \in Workers(l) |-> make_zero]
    /\ adds' = [w \in Workers(l) |-> 0]
    /\ spins' = [w \in Workers(l) |-> 0]
    /\ UNCHANGED <<lost, gpuRest>>

\* einsum_generic_algorithm with C of rank > 0: the kernel is launched on C as it is
LaunchGeneral ==
    /\ launch = NoLaunch
    /\ \E l \in Launches :
         /\ l.kernel = "general"
         /\ C' = [x \in 0 .. l.C_size - 1 |-> Value(l.prior, TRUE)]
         /\ Started(l, l.C_size, "set", "sync")

\* einsum_generic_algorithm for the ExtI x ExtK by ExtK x ExtJ product
LaunchMatmul ==
    /\ launch = NoLaunch
    /\ \E l \in MatmulLaunches :
         /\ C' = [x \in 0 .. l.C_size - 1 |-> Value(l.prior, TRUE)]
         /\ Started(l, l.C_size, "set", "sync")

\* lines 429-433: if (C_prefactor == CDataType{0}) *C = CDataType{0}; else *C *= C_prefactor;
host_set_C(l) ==
    IF l.C_prefactor = 0 THEN make_zero ELSE Scaled(Value(l.prior, TRUE), l.C_prefactor)

\* einsum_generic_algorithm with C of rank 0: C is set on the host, then the
\* rank-zero kernel is launched
LaunchZeroRank ==
    /\ launch = NoLaunch
    /\ \E l \in Launches :
         /\ l.kernel = "zero_rank"
         /\ C' = [x \in {0} |-> host_set_C(l)]
         /\ Started(l, 0, "clear", "clear")

\* the element a worker is about to set has been added to by another worker
Overwrites(w) == C[curr_index[w]] # Value(launch.prior, TRUE)

\* The runs explored lose any number of contributions, except on several blocks for
\* the ExtI x ExtK by ExtK x ExtJ product, where they lose at most MaxLost.
LostBound(l) ==
    IF l.blocks > 1 /\ l.unique_dims = <<ExtI, ExtJ, ExtK>> THEN MaxLost ELSE l.C_size * max_index(l)

At_gpu(w, where) == launch # NoLaunch /\ w \in Workers(launch) /\ gpu_pc[w] = where

\* lines 219-223: make_zero(C[curr_index]); curr_index += kernel_size;
SetZero(w) ==
    /\ At_gpu(w, "set")
    /\ is_zero(launch.C_prefactor)
    /\ Overwrites(w) => lost < LostBound(launch)
    /\ C' = [C EXCEPT ![curr_index[w]] = make_zero]
    /\ lost' = IF Overwrites(w) THEN lost + 1 ELSE lost
    /\ curr_index' = [curr_index EXCEPT ![w] = @ + kernel_size(launch)]
    /\ gpu_pc' = [gpu_pc EXCEPT ![w] = LoopOr(curr_index'[w], launch.C_size, "set", "sync")]
    /\ UNCHANGED <<launch, work, loaded, adds, spins, gpuRest>>

\* line 226, the read of C[curr_index] *= C_prefactor
ScaleLoad(w) ==
    /\ At_gpu(w, "set")
    /\ ~is_zero(launch.C_prefactor)
    /\ loaded' = [loaded EXCEPT ![w] = C[curr_index[w]]]
    /\ gpu_pc' = [gpu_pc EXCEPT ![w] = "scale_store"]
    /\ UNCHANGED <<launch, C, curr_index, work, adds, spins, lost, gpuRest>>

\* line 226, the write of C[curr_index] *= C_prefactor; curr_index += kernel_size;
ScaleStore(w) ==
    /\ At_gpu(w, "scale_store")
    /\ C' = [C EXCEPT ![curr_index[w]] = Scaled(loaded[w], launch.C_prefactor)]
    /\ curr_index' = [curr_index EXCEPT ![w] = @ + kernel_size(launch)]
    /\ gpu_pc' = [gpu_pc EXCEPT ![w] = LoopOr(curr_index'[w], launch.C_size, "set", "sync")]
    /\ UNCHANGED <<launch, work, loaded, adds, spins, lost, gpuRest>>

\* __syncthreads() waits for the workers of the same block
SameBlock(l, w, v) == BlockOf(l, w) = BlockOf(l, v)

\* lines 231-233: __syncthreads(); curr_index = thread_id;
SyncThreads(w) ==
    /\ At_gpu(w, "sync")
    /\ \A v \in Workers(launch) :
          SameBlock(launch, w, v) => gpu_pc[v] \in {"sync", "contract", "done"}
    /\ curr_index' = [curr_index EXCEPT ![w] = w]
    /\ gpu_pc' = [gpu_pc EXCEPT ![w] = LoopOr(w, max_index(launch), "contract", "done")]
    /\ UNCHANGED <<launch, C, work, loaded, adds, spins, lost, gpuRest>>

\* lines 236-261, one iteration
Contract(w) ==
    /\ At_gpu(w, "contract")
    /\ LET Unique_index == sentinel_to_indices(curr_index[w], unique_strides(launch))
           C_sentinel == Sentinel(launch.C_stride, launch.C_index_table, Unique_index)
           A_sentinel == Sentinel(launch.A_stride, launch.A_index_table, Unique_index)
           B_sentinel == Sentinel(launch.B_stride, launch.B_index_table, Unique_index)
       IN  C' = [C EXCEPT ![C_sentinel] =
                    atomicAdd_wrap(@, launch.AB_prefactor * A(A_sentinel) * B(B_sentinel))]
    /\ adds' = [adds EXCEPT ![w] = @ + 1]
    /\ curr_index' = [curr_index EXCEPT ![w] = @ + kernel_size(launch)]
    /\ gpu_pc' = [gpu_pc EXCEPT ![w] = LoopOr(curr_index'[w], max_index(launch), "contract", "done")]
    /\ UNCHANGED <<launch, work, loaded, spins, lost, gpuRest>>

\* lines 283-290: make_zero(work[thread_id]); curr_index = thread_id;
ZeroClear(w) ==
    /\ At_gpu(w, "clear")
    /\ work' = [work EXCEPT ![w] = 0]
    /\ curr_index' = [curr_index EXCEPT ![w] = w]
    /\ gpu_pc' = [gpu_pc EXCEPT ![w] = LoopOr(w, max_index(launch), "loop", "add")]
    /\ UNCHANGED <<launch, C, loaded, adds, spins, lost, gpuRest>>

\* curr_index after one iteration of the rank-zero loop (lines 292-308 do not change it)
zero_rank_next_index(l, index) == index

\* lines 292-308, one iteration: work[thread_id] += A[A_sentinel] * B[B_sentinel];
ZeroLoopBody(w) ==
    /\ At_gpu(w, "loop")
    /\ spins[w] < MaxSpin
    /\ LET Unique_index == sentinel_to_indices(curr_index[w], unique_strides(launch))
           A_sentinel == Sentinel(launch.A_stride, launch.A_index_table, Unique_index)
           B_sentinel == Sentinel(launch.B_stride, launch.B_index_table, Unique_index)
       IN  work' = [work EXCEPT ![w] = @ + A(A_sentinel) * B(B_sentinel)]
    /\ spins' = [spins EXCEPT ![w] = @ + 1]
    /\ curr_index' = [curr_index EXCEPT ![w] = zero_rank_next_index(launch, @)]
    /\ gpu_pc' = [gpu_pc EXCEPT ![w] = LoopOr(curr_index'[w], max_index(launch), "loop", "add")]
    /\ UNCHANGED <<launch, C, loaded, adds, lost, gpuRest>>

\* The loop has no exit once entered and no observable effect: a build may
\* take it to terminate and go on to the statement after it.
ZeroLoopAssumedFinite(w) ==
    /\ At_gpu(w, "loop")
    /\ gpu_pc' = [gpu_pc EXCEPT ![w] = "add"]
    /\ UNCHANGED <<launch, C, curr_index, work, loaded, adds, spins, lost, gpuRest>>

\* line 310: atomicAdd_wrap(C, AB_prefactor * work[thread_id]);
ZeroAtomicAdd(w) ==
    /\ At_gpu(w, "add")
    /\ C' = [C EXCEPT ![0] = atomicAdd_wrap(@, launch.AB_prefactor * work[w])]
    /\ adds' = [adds EXCEPT ![w] = @ + 1]
    /\ gpu_pc' = [gpu_pc EXCEPT ![w] = "done"]
    /\ UNCHANGED <<launch, curr_index, work, loaded, spins, lost, gpuRest>>

AllWorkers == 0 .. MaxWorkers - 1

NextGpu ==
    \/ LaunchGeneral
    \/ LaunchZeroRank
    \/ \E w \in AllWorkers : SetZero(w)
    \/ \E w \in AllWorkers : SyncThreads(w)
    \/ \E w \in AllWorkers : Contract(w)
    \/ \E w \in AllWorkers : ZeroClear(w)
    \/ \E w \in AllWorkers : ZeroLoopBody(w)
    \/ \E w \in AllWorkers : ZeroLoopAssumedFinite(w)
    \/ \E w \in AllWorkers : ZeroAtomicAdd(w)

NextMatmul ==
    \/ LaunchMatmul
    \/ \E w \in AllWorkers : SetZero(w)
    \/ \E w \in AllWorkers : ScaleLoad(w)
    \/ \E w \in AllWorkers : ScaleStore(w)
    \/ \E w \in AllWorkers : SyncThreads(w)
    \/ \E w \in AllWorkers : Contract(w)

\* ---- claims about the kernels ----

KernelDone == launch # NoLaunch /\ \A w \in Workers(launch) : gpu_pc[w] = "done"

RECURSIVE SumTo(_, _, _)
\* sum over k in 0 .. n-1 of A[a0 + k*da] * B[b0 + k*db]
SumTo(n, ab, step) ==
    IF n = 0 THEN 0
    ELSE SumTo(n - 1, ab, step)
           + A(ab[1] + (n - 1) * step[1]) * B(ab[2] + (n - 1) * step[2])

\* C13: the rank-zero kernel on two rank-1 tensors of extent n >= 1 completes
\* for every number of workers (each iteration of a worker's loop takes it
\* to its next index, kernel_size further), each worker issues one atomic
\* add, when it is done, and C ends as the prefactor-adjusted prior C plus
\* AB_prefactor times the sum of A[i]*B[i].
C13_DotProduct ==
    launch.kernel = "zero_rank"
        => /\ \A w \in Workers(launch) :
                 /\ gpu_pc[w] \in {"loop", "add", "done"}
                       => curr_index[w] = w + spins[w] * kernel_size(launch)
                 /\ adds[w] = (IF gpu_pc[w] = "done" THEN 1 ELSE 0)
           /\ KernelDone
                 => C[0].n = launch.C_prefactor * launch.prior
                               + launch.AB_prefactor
                                   * SumTo(launch.unique_dims[1], <<0, 0>>, <<1, 1>>)

\* C14: after the general kernel has finished on A (ExtI x ExtK) and B
\* (ExtK x ExtJ), whatever the interleaving and the grid, every C[i,j] is
\* C_prefactor * C_old[i,j] + AB_prefactor * sum over k of A[i,k] * B[k,j].
C14_MatrixProduct ==
    (launch.kernel = "general" /\ KernelDone)
        => \A i \in 0 .. ExtI - 1, j \in 0 .. ExtJ - 1 :
              C[ExtJ * i + j].n
                  = launch.C_prefactor * launch.prior
                      + launch.AB_prefactor * SumTo(ExtK, <<ExtK * i, j>>, <<1, ExtJ>>)

\* C15: with C_prefactor zero no element of C ends as a value computed from
\* what it held before the contraction, in the general and the rank-zero path.
C15_ZeroPrefactorOverwrites ==
    (launch # NoLaunch /\ launch.C_prefactor = 0 /\ KernelDone)
        => \A x \in DOMAIN C : ~C[x].old

\* a general kernel on two blocks has finished with C_prefactor 0, having
\* added products into a C that held a non-zero value before
C15_Witness ==
    /\ KernelDone
    /\ launch.kernel = "general" /\ launch.blocks > 1
    /\ launch.C_prefactor = 0 /\ launch.AB_prefactor = 1 /\ launch.prior # 0
    /\ \A w \in Workers(launch) : adds[w] > 0
    /\ \A x \in DOMAIN C : ~C[x].old

\* C22: in the general kernel, whatever the number of blocks and workers, no worker
\* has issued an atomic add into C while some worker is still in the phase that
\* zeroes or scales C, and no make_zero has overwritten an element that an atomic
\* add had already changed.
C22_SetBeforeAccumulate ==
    launch.kernel = "general"
        => /\ ~(\E w \in Workers(launch), v \in Workers(launch) :
                   /\ gpu_pc[w] \in {"set", "scale_store"}
                   /\ adds[v] > 0)
           /\ lost = 0

-----------------------------------------------------------------------------
(*                          KHATRI-RAO PRODUCT                             *)

\* most common indices of a khatri_rao call
MaxCommon == 2

\* the extents of a sequence of n indices
Extents(n) == [1 .. n -> 1 .. MaxExtent]

\* khatri_rao(Indices{I, r...}, A, Indices{J, r...}, B): one index only in A, one only
\* in B and n common indices, with the extents A and B have along each
KhatriRaoCalls ==
    UNION { { [A_only_dims |-> <<a>>, B_only_dims |-> <<b>>,
               A_common_dims |-> ac, B_common_dims |-> bc] :
                  a \in 1 .. MaxExtent, b \in 1 .. MaxExtent,
                  ac \in Extents(n), bc \in Extents(n) } : n \in 0 .. MaxCommon }

NoCall == [A_only_dims |-> <<>>, B_only_dims |-> <<>>, A_common_dims |-> <<>>, B_common_dims |-> <<>>]

InitKr ==
    /\ kr_pc = "idle"
    /\ kr_call = NoCall
    /\ kr_i = 0
    /\ kr_trace = <<>>

krRest == <<coreVars, gpuVars, tmVars, idleVars, pollVars, lateVars>>

\* mutation of dims_differ: the sanity check never sees a difference
C16_NeverDiffer(a, b) == FALSE

\* line 488: std::get<i>(A_common_dims) != std::get<i>(B_common_dims)
dims_differ(a, b) == a # b

\* for_sequence<n>: the body runs for i = 0 .. n-1 (here 1 .. n), then the code after it
ForSequence(i, n, body, after) == IF i <= n THEN body ELSE after

\* lines 457-485: the call, up to the extents of the common and the other indices
KhatriRao ==
    /\ kr_pc = "idle"
    /\ \E c \in KhatriRaoCalls :
        /\ kr_call' = c
        /\ kr_pc' = ForSequence(1, Len(c.A_common_dims), "check", "construct")
    /\ kr_i' = 1
    /\ kr_trace' = <<"get_dim_for">>
    /\ UNCHANGED krRest

\* lines 487-492: one step of the sanity check
SanityCheck ==
    /\ kr_pc = "check"
    /\ IF dims_differ(kr_call.A_common_dims[kr_i], kr_call.B_common_dims[kr_i])
       THEN /\ kr_trace' = Append(kr_trace, "std::runtime_error")
            /\ kr_pc' = "thrown"
            /\ UNCHANGED kr_i
       ELSE /\ kr_i' = kr_i + 1
            /\ kr_pc' = ForSequence(kr_i + 1, Len(kr_call.A_common_dims), "check", "construct")
            /\ UNCHANGED kr_trace
    /\ UNCHANGED <<kr_call, krRest>>

\* lines 494-497: result_dims and the resulting tensor
ConstructResult ==
    /\ kr_pc = "construct"
    /\ kr_trace' = Append(kr_trace, "result")
    /\ kr_pc' = "einsum"
    /\ UNCHANGED <<kr_call, kr_i, krRest>>

\* lines 500-504: the contraction, and the return of the reshaped result
Einsum ==
    /\ kr_pc = "einsum"
    /\ kr_trace' = Append(kr_trace, "einsum")
    /\ kr_pc' = "returned"
    /\ UNCHANGED <<kr_call, kr_i, krRest>>

NextKr ==
    \/ KhatriRao
    \/ SanityCheck
    \/ ConstructResult
    \/ Einsum

\* some common index has different extents in A and B
Mismatch(c) == \E i \in DOMAIN c.A_common_dims : c.A_common_dims[i] # c.B_common_dims[i]

KrDone(e) == \E n \in DOMAIN kr_trace : kr_trace[n] = e

\* C16: a khatri_rao call whose operands differ in the extent of a common index
\* fails with the sanity check's error (the InvalidInput kind): the check never gets
\* past the differing index, and neither the result tensor is constructed nor the
\* contraction invoked.
C16_MismatchFailsBeforeResult ==
    (kr_pc # "idle" /\ Mismatch(kr_call))
        => /\ kr_pc \in {"check", "thrown"}
           /\ kr_pc = "check" =>
                \E i \in kr_i .. Len(kr_call.A_common_dims) :
                    kr_call.A_common_dims[i] # kr_call.B_common_dims[i]
           /\ kr_pc = "thrown" => kr_trace = <<"get_dim_for", "std::runtime_error">>
           /\ ~KrDone("result") /\ ~KrDone("einsum")

\* the second common index differs, the first does not, and the call has thrown
C16_Witness ==
    /\ kr_pc = "thrown"
    /\ Len(kr_call.A_common_dims) = 2
    /\ kr_call.A_common_dims[1] = kr_call.B_common_dims[1]
    /\ kr_call.A_common_dims[2] # kr_call.B_common_dims[2]

-----------------------------------------------------------------------------
(*                            PROFILE TIMER                                *)

\* most Timer objects constructed in one run, and the last instant of the clock
MaxTimers == 3
MaxNow == 2

TimerNames == {"a", "b"}

InitTm ==
    /\ tm_now = 0
    /\ tm_timers = <<>>
    /\ tm_stack = <<>>
    /\ tm_unwind = 0
    /\ tm_made = 0
    /\ tm_log = <<>>

tmRest == <<coreVars, gpuVars, krVars, idleVars, pollVars, lateVars>>

\* push(name): a new entry on top of the stack; owner tells which Timer pushed it
push(stack, name, owner) == Append(stack, [name |-> name, owner |-> owner])

\* pop(elapsed): the top entry leaves the stack
pop(stack) == SubSeq(stack, 1, Len(stack) - 1)

\* mutation of Timer_dtor: the destructor leaves the stack as it is
C17_NoPop(stack) == stack

\* lines 46-49: ~Timer() calls pop(difference)
Timer_dtor(stack) == pop(stack)

\* the clock advances
Tick ==
    /\ tm_now < MaxNow
    /\ tm_now' = tm_now + 1
    /\ UNCHANGED <<tm_timers, tm_stack, tm_unwind, tm_made, tm_log, tmRest>>

\* lines 41-44: a scope is entered and its Timer constructed: start = clock::now(); push(name);
Timer(name) ==
    /\ tm_unwind = 0
    /\ tm_made < MaxTimers
    /\ tm_made' = tm_made + 1
    /\ tm_timers' = Append(tm_timers, [id |-> tm_made + 1, start |-> tm_now, depth |-> Len(tm_stack)])
    /\ tm_stack' = push(tm_stack, name, tm_made + 1)
    /\ UNCHANGED <<tm_now, tm_unwind, tm_log, tmRest>>

\* lines 46-49, for the Timer of the innermost scope: difference = clock::now() - start;
\* pop(difference);
Destruct ==
    /\ tm_stack' = Timer_dtor(tm_stack)
    /\ tm_log' = Append(tm_log, [timer |-> tm_timers[Len(tm_timers)].id,
                                 entry |-> IF tm_stack = <<>> THEN 0 ELSE tm_stack[Len(tm_stack)].owner,
                                 elapsed |-> tm_now - tm_timers[Len(tm_timers)].start,
                                 before |-> tm_timers[Len(tm_timers)].depth,
                                 after |-> Len(tm_stack')])
    /\ tm_timers' = SubSeq(tm_timers, 1, Len(tm_timers) - 1)

\* the innermost scope is left at its end (or by return, break, continue)
ScopeExit ==
    /\ tm_unwind = 0
    /\ tm_timers # <<>>
    /\ Destruct
    /\ UNCHANGED <<tm_now, tm_unwind, tm_made, tmRest>>

\* an exception is thrown inside the innermost scope; its handler is k scopes out
Throw ==
    /\ tm_unwind = 0
    /\ \E k \in 1 .. Len(tm_timers) : tm_unwind' = k
    /\ UNCHANGED <<tm_now, tm_timers, tm_stack, tm_made, tm_log, tmRest>>

\* stack unwinding leaves the innermost scope
Unwind ==
    /\ tm_unwind > 0
    /\ Destruct
    /\ tm_unwind' = tm_unwind - 1
    /\ UNCHANGED <<tm_now, tm_made, tmRest>>

NextTm ==
    \/ Tick
    \/ \E name \in TimerNames : Timer(name)
    \/ ScopeExit
    \/ Throw
    \/ Unwind

\* the pop calls issued by the destructor of Timer id
PopsOf(id) == {n \in DOMAIN tm_log : tm_log[n].timer = id}

\* C17: for any nesting of scoped Timer objects and every way of leaving a scope,
\* the stack holds exactly the entries of the Timers alive, in nesting order; the
\* destructor of each Timer issues exactly one pop (none while the Timer is alive),
\* that pop removes the entry the Timer's own constructor pushed, with the time
\* since its construction, and leaves the stack as deep as it was before the scope.
C17_TimersBalanced ==
    /\ Len(tm_stack) = Len(tm_timers)
    /\ \A i \in DOMAIN tm_timers : i \in DOMAIN tm_stack => tm_stack[i].owner = tm_timers[i].id
    /\ \A id \in 1 .. tm_made :
          Cardinality(PopsOf(id)) = (IF \E i \in DOMAIN tm_timers : tm_timers[i].id = id THEN 0 ELSE 1)
    /\ \A n \in DOMAIN tm_log :
          /\ tm_log[n].entry = tm_log[n].timer
          /\ tm_log[n].after = tm_log[n].before
          /\ tm_log[n].elapsed >= 0

\* three nested Timers, an exception through all three scopes, two of them already left
C17_Witness ==
    /\ tm_unwind = 1
    /\ Len(tm_log) = 2
    /\ Len(tm_timers) = 1
    /\ tm_log[1].timer = 3 /\ tm_log[2].timer = 2

-----------------------------------------------------------------------------
(*               SCHEDULER_BASE: IDLE BACK-OFF AND MODE                    *)

\* OS threads that call idle_callback, most idle_callbacks in a row, the largest
\* max_idle_backoff_time (in half milliseconds), most set_scheduler_mode calls
IdleThreads == 2
MaxWait == 3
MaxBackoffHalves == 5
MaxSets == 3

\* std::numeric_limits<double>::max_exponent
max_exponent == 1024

ModeFlags == {"enable_idle_backoff", "enable_elasticity"}
scheduler_modes == SUBSET ModeFlags

Idlers == 0 .. IdleThreads - 1

\* scheduler_base(num_threads, description, thread_queue_init, mode), its idle part
scheduler_base_idle(mode, max_time) ==
    /\ mode_ = mode
    /\ _wait_counts = [t \in Idlers |-> 0]
    /\ _max_idle_backoff_time = max_time
    /\ idle_pc = [t \in Idlers |-> "running"]
    /\ period = [t \in Idlers |-> 0]
    /\ idle_k = [t \in Idlers |-> 0]
    /\ idle_exit = [t \in Idlers |-> "none"]
    /\ sm_pc = "idle"
    /\ sm_arg = mode
    /\ broadcasts = 0
    /\ mode_sets = 0

\* the default mode (nothing_special) and a maximum of 2 ms
InitIdle == scheduler_base_idle({}, 4)

idleRest == <<coreVars, gpuVars, krVars, tmVars, pollVars, lateVars>>

has_scheduler_mode(mode) == mode_ \cap mode # {}

RECURSIVE pow2(_)
\* std::pow(2.0, exponent)
pow2(exponent) == IF exponent = 0 THEN 1 ELSE 2 * pow2(exponent - 1)

\* std::lround of a non-negative number of half units: to the nearest whole, a half
\* away from zero
lround(halves) == (halves + 1) \div 2

\* lines 181-183: the period of the wait in milliseconds
backoff_period(wait_count, max_halves) ==
    lround(Min(max_halves, 2 * pow2(Min(wait_count, max_exponent - 1))))

\* lines 172-185: idle_callback up to ++data._wait_count
IdleCallback(t) ==
    /\ idle_pc[t] = "running"
    /\ has_scheduler_mode({"enable_idle_backoff"})
    /\ _wait_counts[t] < MaxWait
    /\ period' = [period EXCEPT ![t] = backoff_period(_wait_counts[t], _max_idle_backoff_time)]
    /\ idle_k' = [idle_k EXCEPT ![t] = IF idle_exit[t] \in {"none", "no_timeout"} THEN 0 ELSE @ + 1]
    /\ _wait_counts' = [_wait_counts EXCEPT ![t] = @ + 1]
    /\ idle_pc' = [idle_pc EXCEPT ![t] = "lock"]
    /\ UNCHANGED <<mode_, _max_idle_backoff_time, idle_exit, sm_pc, sm_arg, broadcasts, mode_sets, idleRest>>

\* lines 187-188: the thread locks _mtx and starts to wait on _cond
WaitFor(t) ==
    /\ idle_pc[t] = "lock"
    /\ idle_pc' = [idle_pc EXCEPT ![t] = "waiting"]
    /\ UNCHANGED <<mode_, _wait_counts, _max_idle_backoff_time, period, idle_k, idle_exit,
                   sm_pc, sm_arg, broadcasts, mode_sets, idleRest>>

\* line 188: the period is over, wait_for returns cv_status::timeout
Timeout(t) ==
    /\ idle_pc[t] = "waiting"
    /\ idle_pc' = [idle_pc EXCEPT ![t] = "running"]
    /\ idle_exit' = [idle_exit EXCEPT ![t] = "timeout"]
    /\ UNCHANGED <<mode_, _wait_counts, _max_idle_backoff_time, period, idle_k,
                   sm_pc, sm_arg, broadcasts, mode_sets, idleRest>>

\* line 188: wait_for returns cv_status::no_timeout without a notification
SpuriousNoTimeout(t) ==
    /\ idle_pc[t] = "waiting"
    /\ idle_pc' = [idle_pc EXCEPT ![t] = "woken"]
    /\ UNCHANGED <<mode_, _wait_counts, _max_idle_backoff_time, period, idle_k, idle_exit,
                   sm_pc, sm_arg, broadcasts, mode_sets, idleRest>>

\* lines 188-191: reset counter if thread was woken up
Woken(t) ==
    /\ idle_pc[t] = "woken"
    /\ _wait_counts' = [_wait_counts EXCEPT ![t] = 0]
    /\ idle_pc' = [idle_pc EXCEPT ![t] = "running"]
    /\ idle_exit' = [idle_exit EXCEPT ![t] = "no_timeout"]
    /\ UNCHANGED <<mode_, _max_idle_backoff_time, period, idle_k,
                   sm_pc, sm_arg, broadcasts, mode_sets, idleRest>>

\* a caller enters set_scheduler_mode(mode) with the mode it was given
\* (lines 363-367), or with the one add_scheduler_mode (lines 369-373) or
\* remove_scheduler_mode (lines 375-378) computes from get_scheduler_mode()
CallSetSchedulerMode(mode) ==
    /\ sm_pc = "idle"
    /\ mode_sets < MaxSets
    /\ sm_arg' = mode
    /\ sm_pc' = "store"
    /\ UNCHANGED <<mode_, _wait_counts, _max_idle_backoff_time, idle_pc, period, idle_k, idle_exit,
                   broadcasts, mode_sets, idleRest>>

set_scheduler_mode == \E mode \in scheduler_modes : CallSetSchedulerMode(mode)

add_scheduler_mode == \E mode \in scheduler_modes : CallSetSchedulerMode(mode_ \cup mode)

remove_scheduler_mode == \E mode \in scheduler_modes : CallSetSchedulerMode(mode_ \ mode)

\* line 365: mode_.data_.store(mode, std::memory_order_release)
StoreMode ==
    /\ sm_pc = "store"
    /\ mode_' = sm_arg
    /\ sm_pc' = "do_some_work"
    /\ UNCHANGED <<_wait_counts, _max_idle_backoff_time, idle_pc, period, idle_k, idle_exit,
                   sm_arg, broadcasts, mode_sets, idleRest>>

\* _cond.notify_all(): every thread waiting on _cond is woken
notify_all(pcs) == [t \in Idlers |-> IF pcs[t] = "waiting" THEN "woken" ELSE pcs[t]]

\* lines 201-207, called from line 366: do_some_work(std::size_t(-1)), and the return
DoSomeWork ==
    /\ sm_pc = "do_some_work"
    /\ IF has_scheduler_mode({"enable_idle_backoff"})
       THEN /\ idle_pc' = notify_all(idle_pc)
            /\ broadcasts' = broadcasts + 1
       ELSE UNCHANGED <<idle_pc, broadcasts>>
    /\ mode_sets' = mode_sets + 1
    /\ sm_pc' = "idle"
    /\ UNCHANGED <<mode_, _wait_counts, _max_idle_backoff_time, period, idle_k, idle_exit,
                   sm_arg, idleRest>>

NextIdle ==
    \/ \E t \in Idlers : IdleCallback(t)
    \/ \E t \in Idlers : WaitFor(t)
    \/ \E t \in Idlers : Timeout(t)
    \/ \E t \in Idlers : SpuriousNoTimeout(t)
    \/ \E t \in Idlers : Woken(t)
    \/ set_scheduler_mode
    \/ add_scheduler_mode
    \/ remove_scheduler_mode
    \/ StoreMode
    \/ DoSomeWork

\* C18: with enable_idle_backoff, the wait of the k-th idle_callback in a row (k from
\* 0, counted since the thread was last woken) has a period of at most
\* min(max_idle_backoff_time, 2^k) milliseconds; the wait is timed; and a thread that
\* was woken before the timeout has its counter at 0 until its next idle_callback.
C18_BackoffBounded ==
    \A t \in Idlers :
        /\ idle_pc[t] \in {"lock", "waiting", "woken"}
              => 2 * period[t] <= Min(_max_idle_backoff_time, 2 * pow2(idle_k[t]))
        /\ (idle_pc[t] = "running" /\ idle_exit[t] = "no_timeout") => _wait_counts[t] = 0

\* C20: every set_scheduler_mode call that has returned was followed by one wake
\* broadcast to the threads waiting in idle_callback, whatever the old and the new mode.
C20_ModeChangeWakes ==
    sm_pc = "idle" => broadcasts = mode_sets

-----------------------------------------------------------------------------
(*                    SCHEDULER_BASE: POLLING HOOKS                        *)

\* the largest count a work-count function returns
MaxWork == 2

\* a polling function is what it returns when called; null_polling_function
\* returns idle and null_polling_work_count_function returns 0
polling_function_ptrs == {"idle", "busy"}
polling_work_count_function_ptrs == 0 .. MaxWork
null_polling_function == "idle"
null_polling_work_count_function == 0

Builds == [EINSUMS_HAVE_MODULE_ASYNC_MPI : BOOLEAN, EINSUMS_HAVE_MODULE_ASYNC_CUDA : BOOLEAN]

NoPoll ==
    [call |-> "none", status |-> "idle", work_count |-> 0,
     mpi |-> null_polling_function, cuda |-> null_polling_function,
     mpi_work |-> 0, cuda_work |-> 0]

\* scheduler_base(...), its polling hooks, in a given build
scheduler_base_polling(build) ==
    /\ _polling_function_mpi = null_polling_function
    /\ _polling_function_cuda = null_polling_function
    /\ _polling_work_count_function_mpi = null_polling_work_count_function
    /\ _polling_work_count_function_cuda = null_polling_work_count_function
    /\ poll_build = build
    /\ poll_ret = NoPoll

InitPoll ==
    scheduler_base_polling([EINSUMS_HAVE_MODULE_ASYNC_MPI |-> FALSE, EINSUMS_HAVE_MODULE_ASYNC_CUDA |-> FALSE])

pollRest == <<coreVars, gpuVars, krVars, tmVars, idleVars, lateVars>>

set_mpi_polling_functions ==
    /\ \E mpi_func \in polling_function_ptrs, mpi_work_count_func \in polling_work_count_function_ptrs :
        /\ _polling_function_mpi' = mpi_func
        /\ _polling_work_count_function_mpi' = mpi_work_count_func
    /\ UNCHANGED <<_polling_function_cuda, _polling_work_count_function_cuda, poll_build, poll_ret, pollRest>>

clear_mpi_polling_function ==
    /\ _polling_function_mpi' = null_polling_function
    /\ _polling_work_count_function_mpi' = null_polling_work_count_function
    /\ UNCHANGED <<_polling_function_cuda, _polling_work_count_function_cuda, poll_build, poll_ret, pollRest>>

set_cuda_polling_functions ==
    /\ \E cuda_func \in polling_function_ptrs, cuda_work_count_func \in polling_work_count_function_ptrs :
        /\ _polling_function_cuda' = cuda_func
        /\ _polling_work_count_function_cuda' = cuda_work_count_func
    /\ UNCHANGED <<_polling_function_mpi, _polling_work_count_function_mpi, poll_build, poll_ret, pollRest>>

clear_cuda_polling_function ==
    /\ _polling_function_cuda' = null_polling_function
    /\ _polling_work_count_function_cuda' = null_polling_work_count_function
    /\ UNCHANGED <<_polling_function_mpi, _polling_work_count_function_mpi, poll_build, poll_ret, pollRest>>

\* lines 264-277: status starts idle; each poller is called only inside its #if
polling_status(build, mpi, cuda) ==
    IF (build.EINSUMS_HAVE_MODULE_ASYNC_MPI /\ mpi = "busy")
           \/ (build.EINSUMS_HAVE_MODULE_ASYNC_CUDA /\ cuda = "busy")
    THEN "busy" ELSE "idle"

\* lines 279-288: work_count starts 0; each count is added only inside its #if
polling_work_count(build, mpi_work, cuda_work) ==
    (IF build.EINSUMS_HAVE_MODULE_ASYNC_MPI THEN mpi_work ELSE 0)
        + (IF build.EINSUMS_HAVE_MODULE_ASYNC_CUDA THEN cuda_work ELSE 0)

\* what is installed at the time of a call
Installed(function) ==
    [NoPoll EXCEPT !.call = function,
                   !.mpi = _polling_function_mpi, !.cuda = _polling_function_cuda,
                   !.mpi_work = _polling_work_count_function_mpi,
                   !.cuda_work = _polling_work_count_function_cuda]

custom_polling_function ==
    /\ poll_ret' = [Installed("custom_polling_function") EXCEPT
                       !.status = polling_status(poll_build, _polling_function_mpi, _polling_function_cuda)]
    /\ UNCHANGED <<_polling_function_mpi, _polling_function_cuda, _polling_work_count_function_mpi,
                   _polling_work_count_function_cuda, poll_build, pollRest>>

get_polling_work_count ==
    /\ poll_ret' = [Installed("get_polling_work_count") EXCEPT
                       !.work_count = polling_work_count(poll_build, _polling_work_count_function_mpi,
                                                         _polling_work_count_function_cuda)]
    /\ UNCHANGED <<_polling_function_mpi, _polling_function_cuda, _polling_work_count_function_mpi,
                   _polling_work_count_function_cuda, poll_build, pollRest>>

NextPoll ==
    \/ set_mpi_polling_functions
    \/ clear_mpi_polling_function
    \/ set_cuda_polling_functions
    \/ clear_cuda_polling_function
    \/ custom_polling_function
    \/ get_polling_work_count

\* C19: custom_polling_function returns busy exactly when one of the two installed
\* pollers reports busy, and get_polling_work_count returns the sum of the two
\* installed work counts (so idle and 0 with the default pollers).
C19_PollersCombined ==
    /\ poll_ret.call = "custom_polling_function"
          => (poll_ret.status = "busy" <=> (poll_ret.mpi = "busy" \/ poll_ret.cuda = "busy"))
    /\ poll_ret.call = "get_polling_work_count"
          => poll_ret.work_count = poll_ret.mpi_work + poll_ret.cuda_work

-----------------------------------------------------------------------------
(*                  SCHEDULER_BASE: SELECT_ACTIVE_PU                       *)

NoSelect ==
    [pc |-> "idle", num_thread |-> 0, orig |-> 0, allow_fallback |-> FALSE, offset |-> 0,
     max_allowed_state |-> "suspended", num_allowed_threads |-> 0, l |-> {},
     ret |-> 0, seen |-> "none"]

\* scheduler_base(...), the PU mutexes, and a lock `l` that owns nothing
InitPu ==
    /\ _pu_mtxs = [i \in Threads |-> "free"]
    /\ sel = NoSelect

\* the run-states the threads are in when select_active_pu is called
SelectStates == {"suspended", "sleeping", "stopping", "terminating"}

puRest == <<affVars, bufVars, rtVars, gpuVars, krVars, tmVars, idleVars, pollVars, upd, rd>>

C21_AnyState(state, max_allowed_state) == TRUE

\* _states[num_thread_local] <= max_allowed_state   (lines 254, 261, 295)
AllowedState(state, max_allowed_state) == Rank(state) <= Rank(max_allowed_state)

\* std::size_t num_thread_local = (num_thread + offset) % _statessize;
num_thread_local == (sel.num_thread + sel.offset) % PoolSize

\* l = std::unique_lock<pu_mutex_type>(_pu_mtxs[num_thread_local], std::try_to_lock):
\* the new lock tries the mutex, and the move assignment releases what l owned
Acquired == _pu_mtxs[num_thread_local] = "free"

try_to_lock ==
    [i \in Threads |->
        IF i = num_thread_local /\ Acquired THEN "l"
        ELSE IF i \in sel.l THEN "free"
        ELSE _pu_mtxs[i]]

\* the caller's lock lets go of whatever it owns (l.unlock())
unlock(mtxs) == [i \in Threads |-> IF mtxs[i] = "l" THEN "free" ELSE mtxs[i]]

Returned(k, owned, seen) ==
    [sel EXCEPT !.pc = "returned", !.ret = k, !.l = owned, !.seen = seen]

\* select_active_pu(l, num_thread, allow_fallback) is entered (lines 236-239);
\* without enable_elasticity it returns num_thread at once (line 301)
SelectActivePu(num_thread, allow_fallback) ==
    /\ sel.pc = "idle"
    /\ LET entered == [sel EXCEPT !.num_thread = num_thread, !.orig = num_thread,
                                  !.allow_fallback = allow_fallback, !.offset = 0,
                                  !.max_allowed_state = "suspended",
                                  !.num_allowed_threads = 0]
       IN  sel' = IF ~has_scheduler_mode({"enable_elasticity"})
                     THEN [entered EXCEPT !.pc = "returned", !.ret = num_thread]
                  ELSE IF allow_fallback THEN [entered EXCEPT !.pc = "fallback"]
                  ELSE [entered EXCEPT !.pc = "try"]
    /\ UNCHANGED <<_pu_mtxs, schedVars, puRest>>

\* lines 249-259: one try_to_lock of the loop inside yield_while
TryPu ==
    /\ sel.pc = "try"
    /\ IF Acquired /\ AllowedState(_states[num_thread_local], sel.max_allowed_state)
       THEN /\ _pu_mtxs' = try_to_lock
            /\ sel' = [Returned(num_thread_local, {num_thread_local}, _states[num_thread_local])
                          EXCEPT !.num_thread = num_thread_local]
       ELSE /\ _pu_mtxs' = unlock(try_to_lock)
            /\ sel' = [sel EXCEPT !.pc = "count", !.l = {}]
    /\ UNCHANGED <<schedVars, puRest>>

\* lines 261-263 and the loop's ++offset
CountPu ==
    /\ sel.pc = "count"
    /\ sel' = [sel EXCEPT
                 !.num_allowed_threads =
                     IF AllowedState(_states[num_thread_local], sel.max_allowed_state)
                     THEN @ + 1 ELSE @,
                 !.offset = (@ + 1) % PoolSize,
                 !.pc = IF sel.offset + 1 = PoolSize THEN "end_pass" ELSE "try"]
    /\ UNCHANGED <<_pu_mtxs, schedVars, puRest>>

\* lines 266-270: the next larger state select_active_pu accepts
Relaxed(max_allowed_state) ==
    IF Rank(max_allowed_state) <= Rank("suspended") THEN "sleeping" ELSE "stopping"

\* lines 266-285: after a pass over all PUs, relax the allowed state, give up
\* (returning num_thread), or yield and try again
EndPass ==
    /\ sel.pc = "end_pass"
    /\ sel' = IF sel.num_allowed_threads # 0
                 THEN [sel EXCEPT !.pc = "try", !.num_allowed_threads = 0]
              ELSE IF Rank(sel.max_allowed_state) <= Rank("sleeping")
                 THEN [sel EXCEPT !.pc = "try", !.num_allowed_threads = 0,
                                  !.max_allowed_state = Relaxed(@)]
              ELSE Returned(sel.num_thread, sel.l, "none")
    /\ UNCHANGED <<_pu_mtxs, schedVars, puRest>>

\* lines 290-301: with fallback every PU is tried once; after the last one
\* the function returns num_thread
FallbackTry ==
    /\ sel.pc = "fallback"
    /\ _pu_mtxs' = try_to_lock
    /\ LET owned == IF Acquired THEN {num_thread_local} ELSE {}
       IN  sel' = IF Acquired /\ AllowedState(_states[num_thread_local], "suspended")
                     THEN Returned(num_thread_local, owned, _states[num_thread_local])
                  ELSE IF sel.offset + 1 = PoolSize
                     THEN Returned(sel.num_thread, owned, "none")
                  ELSE [sel EXCEPT !.offset = @ + 1, !.l = owned]
    /\ UNCHANGED <<schedVars, puRest>>

\* another OS thread takes or releases a PU mutex
OtherLock(i) ==
    /\ _pu_mtxs[i] = "free"
    /\ _pu_mtxs' = [_pu_mtxs EXCEPT ![i] = "other"]
    /\ UNCHANGED <<sel, schedVars, puRest>>

OtherUnlock(i) ==
    /\ _pu_mtxs[i] = "other"
    /\ _pu_mtxs' = [_pu_mtxs EXCEPT ![i] = "free"]
    /\ UNCHANGED <<sel, schedVars, puRest>>

\* a thread's run-state moves on to the next state while the call runs
Advance(i) ==
    /\ Rank(_states[i]) < Len(RuntimeStates)
    /\ _states' = [_states EXCEPT ![i] = RuntimeStates[Rank(@) + 1]]
    /\ UNCHANGED <<pc_thr, expected, ctl, prior, interfered, notified, puVars, puRest>>

\* the steps of the thread that called select_active_pu
SelectorStep == TryPu \/ CountPu \/ EndPass \/ FallbackTry

NextPu ==
    \/ \E num_thread \in Threads, allow_fallback \in BOOLEAN :
          SelectActivePu(num_thread, allow_fallback)
    \/ TryPu
    \/ CountPu
    \/ EndPass
    \/ FallbackTry
    \/ \E i \in Threads : OtherLock(i)
    \/ \E i \in Threads : OtherUnlock(i)
    \/ \E i \in Threads : Advance(i)

AllGone == \A i \in Threads : _states[i] \in {"terminating", "stopped"}

Selecting == sel.pc \in {"try", "count", "end_pass"}

C21_GaveUp ==
    /\ sel.pc = "returned" /\ ~sel.allow_fallback
    /\ has_scheduler_mode({"enable_elasticity"})
    /\ AllGone /\ sel.seen = "none"

\* C27: when select_active_pu has returned k, the lock it was passed owns nothing
\* or owns the mutex of thread k.
C27_LockMatchesReturn ==
    sel.pc = "returned" => (sel.l = {} \/ sel.l = {sel.ret})

-----------------------------------------------------------------------------
(*            SCHEDULER_BASE: CONCURRENT UPDATES OF THE MODE               *)

\* OS threads that call add_scheduler_mode or remove_scheduler_mode at once
ModeCallers == 2

Updaters == 1 .. ModeCallers

InitUpd ==
    upd = [c \in Updaters |-> [pc |-> "idle", kind |-> "none", flag |-> "none", mode |-> {}]]

updRest == <<coreVars, gpuVars, krVars, tmVars, pollVars, puVars, rd>>

\* scheduler_mode(get_scheduler_mode() | mode), scheduler_mode(get_scheduler_mode() & ~mode)
UpdatedMode(kind, current, flag) ==
    IF kind = "add" THEN current \cup {flag} ELSE current \ {flag}

\* add_scheduler_mode(flag) (line 371) or remove_scheduler_mode(flag) (line 376):
\* the relaxed load of get_scheduler_mode() and the new mode computed from it
GetSchedulerMode(c, kind, flag) ==
    /\ upd[c].pc = "idle"
    /\ upd' = [upd EXCEPT ![c] = [pc |-> "store", kind |-> kind, flag |-> flag,
                                  mode |-> UpdatedMode(kind, mode_, flag)]]
    /\ UNCHANGED <<idleVars, updRest>>

\* set_scheduler_mode(mode), line 365: mode_.data_.store(mode, release)
UpdStore(c) ==
    /\ upd[c].pc = "store"
    /\ mode_' = upd[c].mode
    /\ upd' = [upd EXCEPT ![c].pc = "do_some_work"]
    /\ UNCHANGED <<_wait_counts, _max_idle_backoff_time, idle_pc, period, idle_k, idle_exit,
                   sm_pc, sm_arg, broadcasts, mode_sets, updRest>>

\* set_scheduler_mode(mode), line 366: do_some_work(std::size_t(-1)), and the return
UpdDoSomeWork(c) ==
    /\ upd[c].pc = "do_some_work"
    /\ IF has_scheduler_mode({"enable_idle_backoff"})
       THEN /\ idle_pc' = notify_all(idle_pc)
            /\ broadcasts' = broadcasts + 1
       ELSE UNCHANGED <<idle_pc, broadcasts>>
    /\ mode_sets' = mode_sets + 1
    /\ upd' = [upd EXCEPT ![c].pc = "returned"]
    /\ UNCHANGED <<mode_, _wait_counts, _max_idle_backoff_time, period, idle_k, idle_exit,
                   sm_pc, sm_arg, updRest>>

NextUpd ==
    \/ \E c \in Updaters, kind \in {"add", "remove"}, flag \in ModeFlags :
          GetSchedulerMode(c, kind, flag)
    \/ \E c \in Updaters : UpdStore(c)
    \/ \E c \in Updaters : UpdDoSomeWork(c)

\* C26: when concurrent add_scheduler_mode / remove_scheduler_mode calls on
\* different flags have all returned, the mode has every flag that was added and
\* none that was removed.
C26_NoLostUpdate ==
    (/\ \A c \in Updaters : upd[c].pc = "returned"
     /\ \A c, d \in Updaters : c # d => upd[c].flag # upd[d].flag)
        => \A c \in Updaters :
              /\ upd[c].kind = "add" => upd[c].flag \in mode_
              /\ upd[c].kind = "remove" => upd[c].flag \notin mode_

-----------------------------------------------------------------------------
(*                             SPECIFICATIONS                              *)

InitLate == InitPu /\ InitUpd /\ InitRd

\* The parts added after the first four, before anything has run.
InitExt == InitGpu /\ InitKr /\ InitTm /\ InitIdle /\ InitPoll /\ InitLate

\* Every part constructed; the buffer with capacity 1.
Init == InitAff /\ InitSched /\ CircularBuffer(1) /\ InitRt /\ InitExt

SpecAff == Init /\ [][NextAff]_vars

SpecSched == Init /\ [][NextSched]_vars

\* The buffer constructed with any capacity from 1 to MaxCap.
InitBuf ==
    InitAff /\ InitSched /\ (\E c \in 1 .. MaxCap : CircularBuffer(c)) /\ InitRt /\ InitExt

SpecBuf == InitBuf /\ [][NextBuf]_vars

SpecRt == Init /\ [][NextRt]_vars

SpecGpu == Init /\ [][NextGpu]_vars

SpecMatmul == Init /\ [][NextMatmul]_vars

SpecKr == Init /\ [][NextKr]_vars

SpecTm == Init /\ [][NextTm]_vars

\* The scheduler constructed with any mode and any maximum back-off time.
InitIdleAny ==
    /\ InitAff /\ InitSched /\ CircularBuffer(1) /\ InitRt
    /\ InitGpu /\ InitKr /\ InitTm
    /\ \E mode \in scheduler_modes, max_time \in 0 .. MaxBackoffHalves : scheduler_base_idle(mode, max_time)
    /\ InitPoll /\ InitLate

SpecIdle == InitIdleAny /\ [][NextIdle]_vars

\* The scheduler in any build.
InitPollAny ==
    /\ InitAff /\ InitSched /\ CircularBuffer(1) /\ InitRt
    /\ InitGpu /\ InitKr /\ InitTm /\ InitIdle /\ InitLate
    /\ \E build \in Builds : scheduler_base_polling(build)

SpecPoll == InitPollAny /\ [][NextPoll]_vars

\* The pool with each thread suspended or in a later run-state (select_active_pu
\* treats the earlier ones as it treats suspended), with and without elasticity.
InitPuAny ==
    /\ InitAff /\ CircularBuffer(1) /\ InitRt
    /\ _states \in [Threads -> SelectStates]
    /\ pc_thr = [i \in Threads |-> "out"]
    /\ expected = [i \in Threads |-> "sleeping"]
    /\ ctl = [pc |-> "idle", s |-> "initialized", i |-> 0]
    /\ prior = NoPrior
    /\ interfered = FALSE
    /\ notified = [i \in Threads |-> FALSE]
    /\ InitGpu /\ InitKr /\ InitTm
    /\ \E mode \in {{}, {"enable_elasticity"}} : scheduler_base_idle(mode, 4)
    /\ InitPoll /\ InitLate

\* The thread inside select_active_pu keeps running: yield_while reschedules it.
\* Nothing is assumed of the other threads.
SpecPu == InitPuAny /\ [][NextPu]_vars /\ WF_vars(SelectorStep)

\* The scheduler constructed with any mode, before the concurrent updates.
InitUpdAny ==
    /\ InitAff /\ InitSched /\ CircularBuffer(1) /\ InitRt
    /\ InitGpu /\ InitKr /\ InitTm
    /\ \E mode \in scheduler_modes : scheduler_base_idle(mode, 4)
    /\ InitPoll /\ InitLate

SpecUpd == InitUpdAny /\ [][NextUpd]_vars

SpecBufRead == InitBuf /\ [][NextBufRead]_vars

=============================================================================
